---- MODULE Spec2Model ----
(***************************************************************************)
(* Model of doctai: the response parser of src/doctai/orchestrator.py      *)
(* (_extract_scripts_from_response, _is_runner_script, _is_cleanup_script),*)
(* the run of DocumentationTester.test_documentation, and the sequencing   *)
(* of ScriptExecutor.execute_multiple_scripts (src/doc_tester/executor.py).*)
(*                                                                         *)
(* Text is a TLA+ string, handled character by character with Len, SubSeq  *)
(* and \o.  The TLA+ lexer rejects the character U+0060 inside a string    *)
(* literal, so the model writes that one character as "~": Fence is the    *)
(* three-character fence of the pattern in orchestrator.py:318.            *)
(***************************************************************************)
EXTENDS Integers, Sequences, FiniteSets, TLC

VARIABLES
    pc,                 \* position of the flow of control
    fences,             \* history: the fenced blocks the response was written with
    response,           \* ai_response: the text returned by send_message
    scripts,            \* the ScriptSet (an ordered dict)
    content,            \* argument of _is_runner_script / _is_cleanup_script
    verdict,            \* their return values
    stop_on_failure,    \* argument of test_documentation
    max_iterations,     \* argument of test_documentation
    verbose,            \* self.verbose
    calls,              \* history: how often fetch_multiple and send_message were called
    results,            \* the report dict of test_documentation
    execution_results,  \* the dict built by execute_multiple_scripts
    idx,                \* loop index of execute_multiple_scripts
    in_flight,          \* name of the script whose process is running, or None
    timeout,            \* argument of execute_script
    behaviour,          \* what the file system and the process do in execute_script
    events,             \* history: process starts and ends, in order
    executors,          \* the ScriptExecutor objects, one per run
    cwd,                \* the process's current directory (shared by the runs)
    dirs,               \* file system: the directories that exist
    files,              \* file system: path -> history of the contents written
    cmd,                \* the command handed to subprocess.run
    sources,            \* argument of fetch_multiple
    docs,               \* its outcome: the DocumentationSet, or what it raised
    provider,           \* AIClient.provider
    conversation_history, \* AIClient.conversation_history
    reply,              \* outcome of send_message: the text, or what it raised
    args,               \* argument of merge_with_args
    config,             \* ConfigLoader.config
    merged,             \* return value of merge_with_args
    doc_tester_scripts  \* result of doc_tester's _extract_scripts_from_response

\* the variables of the parser, of test_documentation and of execute_script
coreRest == <<fences, response, scripts, content, verdict, stop_on_failure,
              max_iterations, verbose, calls, results, execution_results, idx,
              in_flight, timeout, behaviour, events>>

executorVars == <<executors, cwd, dirs, files, cmd>>

fetcherVars == <<sources, docs>>

clientVars == <<provider, conversation_history, reply>>

configVars == <<args, config, merged>>

refineVars == <<doc_tester_scripts>>

auxVars == <<executorVars, fetcherVars, clientVars, configVars, refineVars>>

vars == <<pc, coreRest, auxVars>>

None == "None"

\* default of execute_script's timeout parameter, executor.py:93
DefaultTimeout == 600

\* no executor, fetcher call, client, configuration or second parser yet
ExecutorIdle ==
    /\ executors = <<>>
    /\ cwd = None
    /\ dirs = {}
    /\ files = <<>>
    /\ cmd = <<>>

FetcherIdle == sources = <<>> /\ docs = None

ClientIdle == provider = None /\ conversation_history = <<>> /\ reply = None

ConfigIdle == args = None /\ config = None /\ merged = None

RefineIdle == doc_tester_scripts = <<>>

AuxInit == ExecutorIdle /\ FetcherIdle /\ ClientIdle /\ ConfigIdle /\ RefineIdle

(* Python str operations *)

Min(S) == CHOOSE m \in S : \A n \in S : m <= n

Max(S) == CHOOSE m \in S : \A n \in S : m >= n

Ch(s, i) == SubSeq(s, i, i)

UPPER == "ABCDEFGHIJKLMNOPQRSTUVWXYZ"

LOWER == "abcdefghijklmnopqrstuvwxyz"

DIGITS == "0123456789"

\* str.lower() on one character
LowerCh(c) ==
    LET at == {i \in 1..Len(UPPER) : Ch(UPPER, i) = c}
    IN  IF at = {} THEN c ELSE Ch(LOWER, Min(at))

\* str.lower(): every character lowered, the two halves of s in turn
RECURSIVE Lower(_)
Lower(s) ==
    IF Len(s) = 0 THEN ""
    ELSE IF Len(s) = 1 THEN LowerCh(s)
    ELSE Lower(SubSeq(s, 1, Len(s) \div 2))
             \o Lower(SubSeq(s, Len(s) \div 2 + 1, Len(s)))

\* the characters str.strip() removes
IsSpace(c) == c \in {" ", "\n", "\t", "\r"}

\* str.strip()
Strip(s) ==
    LET keep == {i \in 1..Len(s) : ~IsSpace(Ch(s, i))}
    IN  IF keep = {} THEN "" ELSE SubSeq(s, Min(keep), Max(keep))

\* needle in hay
In(needle, hay) ==
    \E i \in 1..(Len(hay) - Len(needle) + 1) :
        SubSeq(hay, i, i + Len(needle) - 1) = needle

\* str.startswith
StartsWith(s, prefix) ==
    Len(prefix) <= Len(s) /\ SubSeq(s, 1, Len(prefix)) = prefix

\* s[:n]
Prefix(s, n) == SubSeq(s, 1, IF Len(s) < n THEN Len(s) ELSE n)

\* s.split('\n')
RECURSIVE SplitLines(_)
SplitLines(s) ==
    LET nl == {i \in 1..Len(s) : Ch(s, i) = "\n"}
    IN  IF nl = {} THEN <<s>>
        ELSE <<SubSeq(s, 1, Min(nl) - 1)>>
                 \o SplitLines(SubSeq(s, Min(nl) + 1, Len(s)))

(* Python dict: insertion-ordered, one entry per key *)

DictKeys(d) == [i \in 1..Len(d) |-> d[i].key]

DictHas(d, k) == \E i \in 1..Len(d) : d[i].key = k

DictGet(d, k) == d[CHOOSE i \in 1..Len(d) : d[i].key = k].value

\* d[k] = v : an existing key keeps its place and takes the new value
DictSet(d, k, v) ==
    IF DictHas(d, k)
    THEN [i \in 1..Len(d) |-> IF d[i].key = k THEN [key |-> k, value |-> v] ELSE d[i]]
    ELSE Append(d, [key |-> k, value |-> v])

RECURSIVE DictUpdateFrom(_, _, _)
DictUpdateFrom(d, other, i) ==
    IF i > Len(other) THEN d
    ELSE DictUpdateFrom(DictSet(d, other[i].key, other[i].value), other, i + 1)

\* d.update(other)
DictUpdate(d, other) == DictUpdateFrom(d, other, 1)

(* re.findall(r'~~~(\w+)\n(.*?)~~~', response, re.DOTALL), orchestrator.py:318-319 *)

Fence == "~~~"

\* \w
IsWordCh(c) == \E i \in 1..Len(UPPER \o LOWER \o DIGITS \o "_") :
                   Ch(UPPER \o LOWER \o DIGITS \o "_", i) = c

\* the position after the longest run of \w starting at position i
RECURSIVE WordEnd(_, _)
WordEnd(text, i) ==
    IF i <= Len(text) /\ IsWordCh(Ch(text, i)) THEN WordEnd(text, i + 1) ELSE i

\* the positions at or after i where a fence starts
FencesFrom(text, i) == {e \in i..(Len(text) - 2) : SubSeq(text, e, e + 2) = Fence}

\* the pattern matches at position s: fence, \w+, newline, shortest body, fence
MatchesAt(text, s) ==
    /\ s + 2 <= Len(text)
    /\ SubSeq(text, s, s + 2) = Fence
    /\ LET w == WordEnd(text, s + 3)
       IN  /\ w > s + 3
           /\ w <= Len(text)
           /\ Ch(text, w) = "\n"
           /\ FencesFrom(text, w + 1) # {}

\* the groups of the match at s, and the position where the scan resumes
MatchAt(text, s) ==
    LET w == WordEnd(text, s + 3)
        e == Min(FencesFrom(text, w + 1))
    IN  [language |-> SubSeq(text, s + 3, w - 1),
         content  |-> SubSeq(text, w + 1, e - 1),
         end      |-> e + 3]

\* the leftmost position at or after pos where the pattern matches, 0 if none
NextMatch(text, pos) ==
    LET starts == {s \in FencesFrom(text, pos) : MatchesAt(text, s)}
    IN  IF starts = {} THEN 0 ELSE Min(starts)

\* non-overlapping matches, leftmost first, scanning from position pos
RECURSIVE FindAllFrom(_, _)
FindAllFrom(text, pos) ==
    LET s == NextMatch(text, pos)
    IN  IF s = 0 THEN <<>>
        ELSE LET m == MatchAt(text, s)
             IN  <<[language |-> m.language, content |-> m.content]>>
                     \o FindAllFrom(text, m.end)

FindAll(text) == FindAllFrom(text, 1)

(* DocumentationTester._is_runner_script, orchestrator.py:356-382 *)

\* 'chmod' in line and '.sh' in line, or line.startswith('./') and '.sh' in line
CallsScript(line) ==
    \/ In("chmod", line) /\ In(".sh", line)
    \/ StartsWith(line, "./") /\ In(".sh", line)

\* [l.strip() for l in lines if l.strip() and not l.strip().startswith('#')]
RECURSIVE ActualLinesFrom(_, _)
ActualLinesFrom(lines, i) ==
    IF i > Len(lines) THEN <<>>
    ELSE IF Strip(lines[i]) # "" /\ ~StartsWith(Strip(lines[i]), "#")
         THEN <<Strip(lines[i])>> \o ActualLinesFrom(lines, i + 1)
         ELSE ActualLinesFrom(lines, i + 1)

ActualLines(text) == ActualLinesFrom(SplitLines(Strip(text)), 1)

\* the for loop of lines 375-380: True at the first line that calls a script
RECURSIVE RunnerLoop(_, _)
RunnerLoop(actual_lines, i) ==
    IF i > Len(actual_lines) THEN FALSE
    ELSE IF CallsScript(actual_lines[i]) THEN TRUE
    ELSE RunnerLoop(actual_lines, i + 1)

RunnerLineLimit == 2

\* mutant: the line count compared with < instead of <=
_is_runner_script_lt(text) ==
    IF Len(ActualLines(text)) < RunnerLineLimit
    THEN RunnerLoop(ActualLines(text), 1)
    ELSE FALSE

_is_runner_script(text) ==
    IF Len(ActualLines(text)) <= RunnerLineLimit
    THEN RunnerLoop(ActualLines(text), 1)
    ELSE FALSE

(* DocumentationTester._is_cleanup_script, orchestrator.py:384-415 *)

cleanup_indicators ==
    <<"cleanup", "clean up", "remove", "rm -rf", "delete", "tear down", "teardown">>

CleanupWindow == 200

\* mutant: the indicator looked for in the whole content
IndicatorFires_anywhere(indicator, content_lower) ==
    /\ In(indicator, content_lower)
    /\ \/ In("echo", content_lower) /\ In(indicator, content_lower)
       \/ In("# " \o indicator, content_lower)
       \/ In("#" \o indicator, content_lower)

\* the test of lines 409-412 for one indicator
IndicatorFires(indicator, content_lower) ==
    /\ In(indicator, Prefix(content_lower, CleanupWindow))
    /\ \/ In("echo", content_lower) /\ In(indicator, content_lower)
       \/ In("# " \o indicator, content_lower)
       \/ In("#" \o indicator, content_lower)

RECURSIVE CleanupLoop(_, _)
CleanupLoop(content_lower, i) ==
    IF i > Len(cleanup_indicators) THEN FALSE
    ELSE IF IndicatorFires(cleanup_indicators[i], content_lower) THEN TRUE
    ELSE CleanupLoop(content_lower, i + 1)

_is_cleanup_script(text) == CleanupLoop(Lower(text), 1)

(* DocumentationTester._extract_scripts_from_response, orchestrator.py:301-354 *)

NonExecutable ==
    {"json", "yaml", "yml", "toml", "xml", "html", "css", "markdown", "md", "txt"}

\* mutant: 'shell' left out of the synonyms of bash
NormalizeType_without_shell(script_type) ==
    IF script_type \in {"sh", "bash"} THEN "bash"
    ELSE IF script_type \in {"py", "python3"} THEN "python"
    ELSE script_type

\* lines 330-333
NormalizeType(script_type) ==
    IF script_type \in {"sh", "shell", "bash"} THEN "bash"
    ELSE IF script_type \in {"py", "python3"} THEN "python"
    ELSE script_type

\* mutant: the ordinal left out of the name
ScriptName_no_ordinal(i, script_type) == "script_" \o script_type

\* f"script_{i}_{script_type}"
ScriptName(i, script_type) == "script_" \o ToString(i) \o "_" \o script_type

\* mutant: the declared language compared as written
ScriptType_as_written(language) == language

\* language.lower(), line 323
ScriptType(language) == Lower(language)

\* mutant: the cleanup test made before the runner test
LoopBody_cleanup_first(i, language, body, acc) ==
    LET script_type == NormalizeType(ScriptType(language))
        script_name == ScriptName(i, script_type)
        script_data == [content |-> Strip(body), type |-> script_type]
    IN  IF ScriptType(language) \in NonExecutable THEN acc
        ELSE IF _is_cleanup_script(body)
        THEN [acc EXCEPT !.cleanup_scripts = DictSet(@, script_name, script_data)]
        ELSE IF _is_runner_script(body) THEN acc
        ELSE [acc EXCEPT !.scripts = DictSet(@, script_name, script_data)]

\* mutant: the runner test left out
LoopBody_no_runner_test(i, language, body, acc) ==
    LET script_type == NormalizeType(ScriptType(language))
        script_name == ScriptName(i, script_type)
        script_data == [content |-> Strip(body), type |-> script_type]
    IN  IF ScriptType(language) \in NonExecutable THEN acc
        ELSE IF _is_cleanup_script(body)
        THEN [acc EXCEPT !.cleanup_scripts = DictSet(@, script_name, script_data)]
        ELSE [acc EXCEPT !.scripts = DictSet(@, script_name, script_data)]

\* one iteration of the for loop, lines 321-349, on the dicts
\* acc = [scripts, cleanup_scripts]
LoopBody(i, language, body, acc) ==
    LET script_type == NormalizeType(ScriptType(language))
        script_name == ScriptName(i, script_type)
        script_data == [content |-> Strip(body), type |-> script_type]
    IN  IF ScriptType(language) \in NonExecutable THEN acc
        ELSE IF _is_runner_script(body) THEN acc
        ELSE IF _is_cleanup_script(body)
        THEN [acc EXCEPT !.cleanup_scripts = DictSet(@, script_name, script_data)]
        ELSE [acc EXCEPT !.scripts = DictSet(@, script_name, script_data)]

\* mutant: the cleanup entries placed first
MergeCleanup_cleanup_first(acc) == DictUpdate(acc.cleanup_scripts, acc.scripts)

\* scripts.update(cleanup_scripts), line 352
MergeCleanup(acc) == DictUpdate(acc.scripts, acc.cleanup_scripts)

\* for i, (language, content) in enumerate(matches, 1)
RECURSIVE ExtractLoop(_, _, _)
ExtractLoop(matches, i, acc) ==
    IF i > Len(matches) THEN MergeCleanup(acc)
    ELSE ExtractLoop(matches, i + 1,
                     LoopBody(i, matches[i].language, matches[i].content, acc))

_extract_scripts_from_response(text) ==
    ExtractLoop(FindAll(text), 1, [scripts |-> <<>>, cleanup_scripts |-> <<>>])

(* The responses the provider is taken to return: up to MaxBlocks pieces,   *)
(* each a fenced block (with or without a language token) or plain prose.   *)

MaxBlocks == 3

Prose == "prose"

\* the pieces a response is written with
BlockLibrary ==
    { [language |-> "bash",  content |-> "#!/bin/bash\necho hi\n"],
      [language |-> "yaml",  content |-> "key: v\n"],
      [language |-> "bash",  content |-> "chmod +x run.sh\n./run.sh\n"],
      [language |-> "SH",    content |-> "# cleanup\nrm -rf /tmp/x\necho \"done\"\n"],
      [language |-> "",      content |-> "plain\n"],
      [language |-> "py",    content |-> "# remove\n./clean.sh\n"],
      [language |-> "JSON",  content |-> "# cleanup\nrm -rf out\n"],
      [language |-> Prose,   content |-> "Nothing to run here.\n"] }

BlockSeqs == UNION {[1..n -> BlockLibrary] : n \in 0..MaxBlocks}

\* the text of one piece
RenderBlock(b) ==
    IF b.language = Prose THEN b.content
    ELSE Fence \o b.language \o "\n" \o b.content \o Fence \o "\n"

RECURSIVE RenderFrom(_, _)
RenderFrom(blocks, i) ==
    IF i > Len(blocks) THEN ""
    ELSE RenderBlock(blocks[i]) \o RenderFrom(blocks, i + 1)

Render(blocks) == RenderFrom(blocks, 1)

\* no call made yet
NoCalls == [fetch_multiple |-> 0, send_message |-> 0]

InitialResults ==
    [success |-> FALSE, documentation_count |-> 0, scripts_generated |-> 0,
     scripts_executed |-> 0, scripts_passed |-> 0, scripts_failed |-> 0,
     scripts |-> <<>>, details |-> <<>>, error |-> None]

(* Specification SpecParse: _extract_scripts_from_response on every response *)

InitParse ==
    /\ pc = "response"
    /\ fences \in BlockSeqs
    /\ response = Render(fences)
    /\ scripts = <<>>
    /\ content = ""
    /\ verdict = None
    /\ stop_on_failure = FALSE
    /\ AuxInit
    /\ max_iterations = 3
    /\ verbose = FALSE
    /\ calls = NoCalls
    /\ timeout = DefaultTimeout
    /\ behaviour = None
    /\ results = InitialResults
    /\ execution_results = <<>>
    /\ idx = 0
    /\ in_flight = None
    /\ events = <<>>

Extract ==
    /\ pc = "response"
    /\ scripts' = _extract_scripts_from_response(response)
    /\ pc' = "parsed"
    /\ UNCHANGED <<fences, response, content, verdict, stop_on_failure,
                   timeout, behaviour, max_iterations, verbose, calls, results,
                   execution_results, idx, in_flight, events,
                   auxVars>>

NextParse == Extract

SpecParse == InitParse /\ [][NextParse]_vars

(* Specification SpecRunner: _is_runner_script on every content of up to    *)
(* MaxLines lines, then the extraction of a response holding that content.  *)

MaxLines == 3

RunnerLines ==
    {"chmod +x run.sh", "./run.sh", "echo hi", " # note", "", "  ./a.sh",
     "chmod 755 bin", "./configure"}

RECURSIVE JoinFrom(_, _)
JoinFrom(lines, i) ==
    IF i > Len(lines) THEN ""
    ELSE IF i = Len(lines) THEN lines[i]
    ELSE lines[i] \o "\n" \o JoinFrom(lines, i + 1)

\* '\n'.join(lines)
JoinLines(lines) == JoinFrom(lines, 1)

RunnerInputs ==
    {JoinLines(ls) : ls \in UNION {[1..n -> RunnerLines] : n \in 0..MaxLines}}

NormalBlock == [language |-> "bash", content |-> "#!/bin/bash\necho hi\n"]

InitRunner ==
    /\ pc = "call_is_runner"
    /\ content \in RunnerInputs
    /\ fences = <<[language |-> "bash", content |-> content]>>
    /\ response = Render(fences)
    /\ scripts = <<>>
    /\ verdict = None
    /\ stop_on_failure = FALSE
    /\ AuxInit
    /\ max_iterations = 3
    /\ verbose = FALSE
    /\ calls = NoCalls
    /\ timeout = DefaultTimeout
    /\ behaviour = None
    /\ results = InitialResults
    /\ execution_results = <<>>
    /\ idx = 0
    /\ in_flight = None
    /\ events = <<>>

IsRunnerScript ==
    /\ pc = "call_is_runner"
    /\ verdict' = _is_runner_script(content)
    /\ pc' = "response"
    /\ UNCHANGED <<fences, response, scripts, content, stop_on_failure,
                   timeout, behaviour, max_iterations, verbose, calls, results,
                   execution_results, idx, in_flight, events,
                   auxVars>>

NextRunner == IsRunnerScript \/ Extract

SpecRunner == InitRunner /\ [][NextRunner]_vars

(* Specification SpecCleanup: _is_cleanup_script on contents whose indicator *)
(* lies before, across and after the end of the window, then the extraction  *)
(* of a response holding that content followed by a normal block.            *)

MaxShift == 12

X16 == "xxxxxxxxxxxxxxxx"

X64 == X16 \o X16 \o X16 \o X16

X256 == X64 \o X64 \o X64 \o X64

\* n filler characters
Pad(n) == SubSeq(X256, 1, n)

PadLens == {0} \cup ((CleanupWindow - MaxShift)..CleanupWindow)

Heads == {"", "remove old\n", "# Teardown\n", "echo start\n"}

Tails ==
    {"", "rm -rf /tmp/x\n", "# cleanup\n", "#delete\n", "echo done\n",
     "Clean Up\necho ok\n", "tear down\n"}

CleanupInputs ==
    {h \o Pad(n) \o t : h \in Heads, n \in PadLens, t \in Tails}
        \cup {"# cleanup\nrm -rf /tmp/x\necho \"done\""}

InitCleanup ==
    /\ pc = "call_is_cleanup"
    /\ content \in CleanupInputs
    /\ fences = <<[language |-> "bash", content |-> content], NormalBlock>>
    /\ response = Render(fences)
    /\ scripts = <<>>
    /\ verdict = None
    /\ stop_on_failure = FALSE
    /\ AuxInit
    /\ max_iterations = 3
    /\ verbose = FALSE
    /\ calls = NoCalls
    /\ timeout = DefaultTimeout
    /\ behaviour = None
    /\ results = InitialResults
    /\ execution_results = <<>>
    /\ idx = 0
    /\ in_flight = None
    /\ events = <<>>

IsCleanupScript ==
    /\ pc = "call_is_cleanup"
    /\ verdict' = _is_cleanup_script(content)
    /\ pc' = "response"
    /\ UNCHANGED <<fences, response, scripts, content, stop_on_failure,
                   timeout, behaviour, max_iterations, verbose, calls, results,
                   execution_results, idx, in_flight, events,
                   auxVars>>

NextCleanup == IsCleanupScript \/ Extract

SpecCleanup == InitCleanup /\ [][NextCleanup]_vars

(* Specification SpecType: the extraction of responses of one or two fenced  *)
(* blocks whose language tokens are written in every letter case.            *)

\* the language tokens the fences are written with
TypeLanguages ==
    {"sh", "SH", "shell", "Shell", "bash", "BASH", "Bash", "py", "Py",
     "python3", "PYTHON3", "python", "Python", "python2", "Ruby", "zsh",
     "JavaScript", "yaml", "Md"}

\* a normal content and a cleanup content
TypeContents == {"echo hi\nls\nexit 0\n", "# cleanup\nrm -rf out\n"}

TypeBlocks == [language : TypeLanguages, content : TypeContents]

TypeBlockSeqs == UNION {[1..n -> TypeBlocks] : n \in 1..2}

InitType ==
    /\ pc = "response"
    /\ fences \in TypeBlockSeqs
    /\ response = Render(fences)
    /\ scripts = <<>>
    /\ content = ""
    /\ verdict = None
    /\ stop_on_failure = FALSE
    /\ AuxInit
    /\ max_iterations = 3
    /\ verbose = FALSE
    /\ calls = NoCalls
    /\ timeout = DefaultTimeout
    /\ behaviour = None
    /\ results = InitialResults
    /\ execution_results = <<>>
    /\ idx = 0
    /\ in_flight = None
    /\ events = <<>>

NextType == Extract

SpecType == InitType /\ [][NextType]_vars

(* Specification Spec: one call of DocumentationTester.test_documentation,   *)
(* orchestrator.py:69-197, with ScriptExecutor.execute_multiple_scripts,     *)
(* executor.py:204-240, run one process at a time.                           *)

MaxDocs == 1

\* the pieces of the responses of a whole run
RunLibrary ==
    { [language |-> "bash",  content |-> "#!/bin/bash\necho hi\n"],
      [language |-> "SH",    content |-> "# cleanup\nrm -rf /tmp/x\necho \"done\"\n"],
      [language |-> "yaml",  content |-> "key: v\n"] }

RunBlockSeqs == UNION {[1..n -> RunLibrary] : n \in 0..MaxBlocks}

\* responses without any script: prose only, a runner only, a fence without
\* a language token, a denylisted block with a runner
NoScriptResponses ==
    { <<[language |-> Prose, content |-> "Nothing to run here.\n"]>>,
      <<[language |-> "bash", content |-> "chmod +x run.sh\n./run.sh\n"]>>,
      <<[language |-> "", content |-> "plain\n"]>>,
      <<[language |-> "yaml", content |-> "key: v\n"],
        [language |-> "bash", content |-> "chmod +x run.sh\n./run.sh\n"]>> }

\* default of max_iterations, orchestrator.py:72
DefaultIterations == 3

\* the values max_iterations is called with in SpecGenerate
Iterations == {0, 1, 2, DefaultIterations}

\* mutant: one call of send_message per iteration
SendCount_per_iteration(n) == n

\* orchestrator.py:270: send_message is called once, outside any loop;
\* max_iterations is passed to _generate_test_scripts and not read there
SendCount(n) == 1

\* what execute_script returns, by what became of the process:
\* lines 172-186 (the process exited), 188-194 (timeout), 196-202 (any other
\* failure between writing the file and the end of the process)
ExecuteScriptResult(outcome) ==
    CASE outcome = "exit_zero" ->
             [success |-> TRUE, stdout |-> "hi\n", stderr |-> ""]
      [] outcome = "exit_nonzero" ->
             [success |-> FALSE, stdout |-> "", stderr |-> "boom\n"]
      [] outcome = "timeout" ->
             [success |-> FALSE, stdout |-> "",
              stderr |-> "Script execution timed out after "
                             \o ToString(DefaultTimeout) \o " seconds"]
      [] outcome = "write_error" ->
             [success |-> FALSE, stdout |-> "",
              stderr |-> "Failed to execute script: [Errno 13] Permission denied"]
      [] outcome = "spawn_error" ->
             [success |-> FALSE, stdout |-> "",
              stderr |-> "Failed to execute script: [Errno 8] Exec format error"]

Outcomes == {"exit_zero", "exit_nonzero", "timeout", "write_error", "spawn_error"}

\* mutant: the scripts taken from the last to the first
ScriptAt_reversed(d, i) == d[Len(d) - i]

\* the item the for loop of executor.py:221 takes at index i (from 0)
ScriptAt(d, i) == d[i + 1]

\* mutant: the loop left at any failure, whatever stop_on_failure
ShouldBreak_on_any_failure(success, stop) == ~success

\* mutant: the loop never left early
ShouldBreak_never(success, stop) == FALSE

\* executor.py:235
ShouldBreak(success, stop) == ~success /\ stop

OutputLimit == 1000

\* orchestrator.py:176-181
Detail(script_name, r) ==
    [script |-> script_name, success |-> r.success,
     stdout |-> Prefix(r.stdout, OutputLimit), stderr |-> Prefix(r.stderr, OutputLimit)]

\* mutant: a failed script reported as the error of the run
Collected_failure_as_error(res, er) ==
    [res EXCEPT
        !.scripts_executed = Len(er),
        !.scripts_passed = Cardinality({k \in 1..Len(er) : er[k].value.success}),
        !.scripts_failed = 0,
        !.error = IF \E k \in 1..Len(er) : ~er[k].value.success
                  THEN "Script failed" ELSE @,
        !.details = [k \in 1..Len(er) |-> Detail(er[k].key, er[k].value)]]

\* mutant: only the scripts that passed get a detail
Collected_details_of_passed(res, er) ==
    [res EXCEPT
        !.scripts_executed = Len(er),
        !.scripts_passed = Cardinality({k \in 1..Len(er) : er[k].value.success}),
        !.scripts_failed = Cardinality({k \in 1..Len(er) : ~er[k].value.success}),
        !.details = SelectSeq([k \in 1..Len(er) |-> Detail(er[k].key, er[k].value)],
                              LAMBDA dt : dt.success)]

\* orchestrator.py:168-181: the counts and the details of the executed scripts
Collected(res, er) ==
    [res EXCEPT
        !.scripts_executed = Len(er),
        !.scripts_passed = Cardinality({k \in 1..Len(er) : er[k].value.success}),
        !.scripts_failed = Cardinality({k \in 1..Len(er) : ~er[k].value.success}),
        !.details = [k \in 1..Len(er) |-> Detail(er[k].key, er[k].value)]]

\* orchestrator.py:188-191
OverallSuccess(res) == res.scripts_executed > 0 /\ res.scripts_failed = 0

Init ==
    /\ pc = "fetch"
    /\ stop_on_failure \in BOOLEAN
    /\ AuxInit
    /\ max_iterations = DefaultIterations
    /\ verbose \in BOOLEAN
    /\ calls = NoCalls
    /\ timeout = DefaultTimeout
    /\ behaviour = None
    /\ results = InitialResults
    /\ fences = <<>>
    /\ response = ""
    /\ scripts = <<>>
    /\ content = ""
    /\ verdict = None
    /\ execution_results = <<>>
    /\ idx = 0
    /\ in_flight = None
    /\ events = <<>>

\* mutant: an empty ScriptSet handed to the executor
NoScripts_never(d) == FALSE

\* 'not scripts', orchestrator.py:143
NoScripts(d) == d = <<>>

\* lines 106-112: fetch_multiple returns the documents
FetchDocumentation ==
    /\ pc = "fetch"
    /\ \E n \in 0..MaxDocs :
           results' = [results EXCEPT !.documentation_count = n]
    /\ calls' = [calls EXCEPT !.fetch_multiple = @ + 1]
    /\ pc' = "generate"
    /\ UNCHANGED <<fences, response, scripts, content, verdict,
                   stop_on_failure, timeout, behaviour, max_iterations,
                   verbose, execution_results, idx, in_flight, events,
                   auxVars>>

\* mutant: the run goes on to the provider after a failed fetch
FetchFails_continues ==
    /\ pc = "fetch"
    /\ results' = [results EXCEPT !.error = "Failed to fetch documentation"]
    /\ calls' = [calls EXCEPT !.fetch_multiple = @ + 1]
    /\ pc' = "generate"
    /\ UNCHANGED <<fences, response, scripts, content, verdict,
                   stop_on_failure, timeout, behaviour, max_iterations,
                   verbose, execution_results, idx, in_flight, events,
                   auxVars>>

\* lines 113-115: fetch_multiple raises
FetchFails ==
    /\ pc = "fetch"
    /\ results' = [results EXCEPT !.error = "Failed to fetch documentation"]
    /\ calls' = [calls EXCEPT !.fetch_multiple = @ + 1]
    /\ pc' = "returned"
    /\ UNCHANGED <<fences, response, scripts, content, verdict,
                   stop_on_failure, timeout, behaviour, max_iterations,
                   verbose, execution_results, idx, in_flight, events,
                   auxVars>>

\* lines 129-131 and 143-145: send_message returns a response, the scripts
\* are extracted from it, and an empty ScriptSet ends the run
GenerateTestScripts ==
    /\ pc = "generate"
    /\ \E blocks \in RunBlockSeqs \cup NoScriptResponses :
           /\ fences' = blocks
           /\ response' = Render(blocks)
    /\ calls' = [calls EXCEPT !.send_message = @ + SendCount(max_iterations)]
    /\ scripts' = _extract_scripts_from_response(response')
    /\ results' = [results EXCEPT
                       !.scripts_generated = Len(scripts'),
                       !.scripts = scripts',
                       !.error = IF NoScripts(scripts')
                                 THEN "No test scripts were generated" ELSE @]
    /\ pc' = IF NoScripts(scripts') THEN "returned" ELSE "execute"
    /\ UNCHANGED <<content, verdict, stop_on_failure, timeout, behaviour,
                   max_iterations, verbose, execution_results, idx, in_flight,
                   events,
                   auxVars>>

\* lines 137-141: send_message raises
GenerateFails ==
    /\ pc = "generate"
    /\ results' = [results EXCEPT !.error = "Failed to generate test scripts"]
    /\ calls' = [calls EXCEPT !.send_message = @ + 1]
    /\ pc' = "returned"
    /\ UNCHANGED <<fences, response, scripts, content, verdict,
                   stop_on_failure, timeout, behaviour, max_iterations,
                   verbose, execution_results, idx, in_flight, events,
                   auxVars>>

\* lines 157-162 and executor.py:37-48, 219: the executor is built
EnterExecutor ==
    /\ pc = "execute"
    /\ execution_results' = <<>>
    /\ idx' = 0
    /\ pc' = "loop"
    /\ UNCHANGED <<fences, response, scripts, content, verdict,
                   stop_on_failure, timeout, behaviour, max_iterations,
                   verbose, calls, results, in_flight, events,
                   auxVars>>

\* executor.py:44, 47 raise (the directory cannot be made); lines 183-185
ExecutorInitFails ==
    /\ pc = "execute"
    /\ results' = [results EXCEPT
                       !.error = "Failed to execute scripts: [Errno 13] Permission denied"]
    /\ pc' = "returned"
    /\ UNCHANGED <<fences, response, scripts, content, verdict,
                   stop_on_failure, timeout, behaviour, max_iterations,
                   verbose, calls, execution_results, idx, in_flight, events,
                   auxVars>>

\* executor.py:221-231 and 110-170: the next script is written and its
\* process started
StartScript ==
    /\ pc = "loop"
    /\ in_flight = None
    /\ idx < Len(scripts)
    /\ in_flight' = ScriptAt(scripts, idx).key
    /\ events' = Append(events, [kind |-> "start", script |-> ScriptAt(scripts, idx).key])
    /\ UNCHANGED <<pc, fences, response, scripts, content, verdict,
                   stop_on_failure, timeout, behaviour, max_iterations,
                   verbose, calls, results, execution_results, idx,
                   auxVars>>

\* executor.py:121-125 raise before the try of line 130 (Path.cwd() when the
\* current directory is gone): execute_multiple_scripts is left by the
\* exception, orchestrator.py:183-185
ScriptSetupRaises ==
    /\ pc = "loop"
    /\ in_flight = None
    /\ idx < Len(scripts)
    /\ results' = [results EXCEPT
                       !.error = "Failed to execute scripts: [Errno 2] No such file or directory"]
    /\ pc' = "returned"
    /\ UNCHANGED <<fences, response, scripts, content, verdict,
                   stop_on_failure, timeout, behaviour, max_iterations,
                   verbose, calls, execution_results, idx, in_flight, events,
                   auxVars>>

\* executor.py:163-202 and 233-238: the process ends, its result is recorded,
\* and the loop goes on, breaks or is over
FinishScript ==
    /\ pc = "loop"
    /\ in_flight # None
    /\ \E outcome \in Outcomes :
           /\ execution_results' =
                  DictSet(execution_results, in_flight, ExecuteScriptResult(outcome))
           /\ events' = Append(events, [kind |-> "end", script |-> in_flight])
           /\ in_flight' = None
           /\ IF ShouldBreak(ExecuteScriptResult(outcome).success, stop_on_failure)
              THEN pc' = "collect" /\ idx' = idx
              ELSE /\ idx' = idx + 1
                   /\ pc' = IF idx + 1 < Len(scripts) THEN "loop" ELSE "collect"
    /\ UNCHANGED <<fences, response, scripts, content, verdict,
                   stop_on_failure, timeout, behaviour, max_iterations,
                   verbose, calls, results,
                   auxVars>>

\* orchestrator.py:168-181, the exit of the with block (executor.py:264-266,
\* 242-258), then lines 188-197
CollectResults ==
    /\ pc = "collect"
    /\ results' = [Collected(results, execution_results) EXCEPT
                       !.success = OverallSuccess(Collected(results, execution_results))]
    /\ pc' = "returned"
    /\ UNCHANGED <<fences, response, scripts, content, verdict,
                   stop_on_failure, timeout, behaviour, max_iterations,
                   verbose, calls, execution_results, idx, in_flight, events,
                   auxVars>>

\* orchestrator.py:168-181, then cleanup() raises at the exit of the with
\* block: the prints of executor.py:253-258, made when verbose, are outside
\* any try and raise when the console is gone; lines 183-185
CleanupRaises ==
    /\ pc = "collect"
    /\ verbose
    /\ results' = [Collected(results, execution_results) EXCEPT
                       !.error = "Failed to execute scripts: [Errno 32] Broken pipe"]
    /\ pc' = "returned"
    /\ UNCHANGED <<fences, response, scripts, content, verdict,
                   stop_on_failure, timeout, behaviour, max_iterations,
                   verbose, calls, execution_results, idx, in_flight, events,
                   auxVars>>

\* KeyboardInterrupt while subprocess.run waits (executor.py:163): it is not
\* an Exception, so neither executor.py:196 nor orchestrator.py:183 catches
\* it; the process is killed, cleanup() runs and test_documentation is left
\* by the exception, which cli.py:273-275 turns into exit status 130
Interrupt ==
    /\ pc = "loop"
    /\ in_flight # None
    /\ events' = Append(events, [kind |-> "end", script |-> in_flight])
    /\ in_flight' = None
    /\ pc' = "interrupted"
    /\ UNCHANGED <<fences, response, scripts, content, verdict,
                   stop_on_failure, timeout, behaviour, max_iterations,
                   verbose, calls, results, execution_results, idx,
                   auxVars>>

Next ==
    \/ FetchDocumentation
    \/ FetchFails
    \/ GenerateTestScripts
    \/ GenerateFails
    \/ EnterExecutor
    \/ ExecutorInitFails
    \/ StartScript
    \/ ScriptSetupRaises
    \/ FinishScript
    \/ CollectResults
    \/ CleanupRaises
    \/ Interrupt

Spec == Init /\ [][Next]_vars

(* Specification SpecGenerate: the fetch stage and the provider stage of     *)
(* test_documentation, orchestrator.py:100-145, for every max_iterations.    *)

InitGenerate ==
    /\ pc = "fetch"
    /\ stop_on_failure \in BOOLEAN
    /\ AuxInit
    /\ max_iterations \in Iterations
    /\ verbose \in BOOLEAN
    /\ calls = NoCalls
    /\ timeout = DefaultTimeout
    /\ behaviour = None
    /\ results = InitialResults
    /\ fences = <<>>
    /\ response = ""
    /\ scripts = <<>>
    /\ content = ""
    /\ verdict = None
    /\ execution_results = <<>>
    /\ idx = 0
    /\ in_flight = None
    /\ events = <<>>

NextGenerate ==
    \/ FetchDocumentation
    \/ FetchFails
    \/ GenerateTestScripts
    \/ GenerateFails

SpecGenerate == InitGenerate /\ [][NextGenerate]_vars

(* Specification SpecExecute: one call of ScriptExecutor.execute_script,     *)
(* executor.py:89-202, for every behaviour of the file system and of the     *)
(* process and several timeouts.                                             *)

\* executor.py:189
TimeoutMessage(t) == "Script execution timed out after " \o ToString(t) \o " seconds"

\* executor.py:197, with str(e) of the OSError
FailureMessage(reason) == "Failed to execute script: " \o reason

\* the values execute_script is called with
Timeouts == {1, 60, DefaultTimeout}

ReturnCodes == {0, 1, 2, 127}

\* what a process writes to its standard output
Stdouts == {"", "hi\n"}

\* what a process writes to its standard error: nothing, a message of its
\* own, or text that speaks of a timeout
Stderrs ==
    {"", "boom\n", "curl: (28) Connection timed out\n"}
        \cup {TimeoutMessage(t) : t \in Timeouts}

\* the current directory is gone (Path.cwd(), line 125), the script file
\* cannot be written (line 131), the command cannot be started (line 163),
\* the process outlives the timeout, or it exits
Behaviours ==
    { [kind |-> k, returncode |-> 0, stdout |-> "", stderr |-> ""] :
          k \in {"cwd_gone", "write_error", "spawn_error", "timeout"} }
    \cup [kind : {"exit"}, returncode : ReturnCodes, stdout : Stdouts, stderr : Stderrs]

\* the exception leaves execute_script
Raised == [raised |-> TRUE, success |-> FALSE, stdout |-> "", stderr |-> ""]

Returned(success, stdout, stderr) ==
    [raised |-> FALSE, success |-> success, stdout |-> stdout, stderr |-> stderr]

\* mutant: a timeout reported with the output of a failed script
execute_script_timeout_as_exit(b, t) ==
    CASE b.kind = "cwd_gone"    -> Raised
      [] b.kind = "write_error" ->
             Returned(FALSE, "", FailureMessage("[Errno 13] Permission denied"))
      [] b.kind = "spawn_error" ->
             Returned(FALSE, "", FailureMessage("[Errno 8] Exec format error"))
      [] b.kind = "timeout"     -> Returned(FALSE, "", "")
      [] b.kind = "exit"        -> Returned(b.returncode = 0, b.stdout, b.stderr)

\* execute_script: lines 121-128 are outside the try of line 130; lines
\* 131-170 raise into the handlers of lines 188-194 and 196-202; lines 172-186
\* return the result of the process
execute_script(b, t) ==
    CASE b.kind = "cwd_gone"    -> Raised
      [] b.kind = "write_error" ->
             Returned(FALSE, "", FailureMessage("[Errno 13] Permission denied"))
      [] b.kind = "spawn_error" ->
             Returned(FALSE, "", FailureMessage("[Errno 8] Exec format error"))
      [] b.kind = "timeout"     -> Returned(FALSE, "", TimeoutMessage(t))
      [] b.kind = "exit"        -> Returned(b.returncode = 0, b.stdout, b.stderr)

InitExecute ==
    /\ pc = "call_execute_script"
    /\ timeout \in Timeouts
    /\ behaviour \in Behaviours
    /\ fences = <<>>
    /\ response = ""
    /\ scripts = <<>>
    /\ content = "#!/bin/bash\necho hi"
    /\ verdict = None
    /\ stop_on_failure = FALSE
    /\ AuxInit
    /\ max_iterations = DefaultIterations
    /\ verbose = FALSE
    /\ calls = NoCalls
    /\ results = InitialResults
    /\ execution_results = <<>>
    /\ idx = 0
    /\ in_flight = None
    /\ events = <<>>

ExecuteScript ==
    /\ pc = "call_execute_script"
    /\ verdict' = execute_script(behaviour, timeout)
    /\ pc' = "executed"
    /\ UNCHANGED <<fences, response, scripts, content, stop_on_failure, timeout,
                   behaviour, max_iterations, verbose, calls, results,
                   execution_results, idx, in_flight, events,
                   auxVars>>

NextExecute == ExecuteScript

SpecExecute == InitExecute /\ [][NextExecute]_vars

(* Vocabulary of the claims about the parser.  The rules are stated on the  *)
(* text of a block, line by line, independently of the loops above.         *)

IsCandidate(b) == b.language \notin {Prose, ""}

\* the fenced blocks that carry a language token, in order of appearance;
\* the ordinal of a candidate is its index here
Candidates == SelectSeq(fences, IsCandidate)

DenyList ==
    {"json", "yaml", "yml", "toml", "xml", "html", "css", "markdown", "md", "txt"}

Indicators ==
    {"cleanup", "clean up", "remove", "rm -rf", "delete", "tear down", "teardown"}

NewlinesOf(t) == {i \in 1..Len(t) : Ch(t, i) = "\n"}

\* the positions where a line of t starts
LineStarts(t) == {1} \cup {i + 1 : i \in NewlinesOf(t)}

\* the line of t that starts at position s, without its newline
LineAt(t, s) ==
    SubSeq(t, s, Min({i \in NewlinesOf(t) : i >= s} \cup {Len(t) + 1}) - 1)

\* the lines that are neither blank nor comments, by their start positions
SubstantiveStarts(t) ==
    {s \in LineStarts(t) :
        /\ Strip(LineAt(t, s)) # ""
        /\ Ch(Strip(LineAt(t, s)), 1) # "#"}

RunnerRule(t) ==
    /\ Cardinality(SubstantiveStarts(t)) <= 2
    /\ \E s \in SubstantiveStarts(t) :
          LET l == Strip(LineAt(t, s))
          IN  \/ In("chmod", l) /\ In(".sh", l)
              \/ StartsWith(l, "./") /\ In(".sh", l)

\* ind occurs in t, wholly inside the first n characters
OccursWithin(ind, t, n) ==
    \E q \in 1..Len(t) :
        /\ q + Len(ind) - 1 <= n
        /\ q + Len(ind) - 1 <= Len(t)
        /\ SubSeq(t, q, q + Len(ind) - 1) = ind

CleanupRule(t) ==
    LET low == Lower(t)
    IN  \E ind \in Indicators :
            /\ OccursWithin(ind, low, 200)
            /\ \/ In("echo", low)
               \/ In("# " \o ind, low)
               \/ In("#" \o ind, low)

Decide(b) ==
    IF Lower(b.language) \in DenyList THEN "rejected-non-executable"
    ELSE IF RunnerRule(b.content) THEN "rejected-runner"
    ELSE IF CleanupRule(b.content) THEN "cleanup"
    ELSE "normal"

\* the rules and the decision of every block of the library, computed once
RuleTable ==
    [b \in {c \in BlockLibrary : IsCandidate(c)} |->
        [denied   |-> Lower(b.language) \in DenyList,
         runner   |-> RunnerRule(b.content),
         cleanup  |-> CleanupRule(b.content),
         decision |-> Decide(b)]]

Decision(b) == RuleTable[b].decision

OrdinalsDecided(d) == {i \in 1..Len(Candidates) : Decision(Candidates[i]) = d}

ExpectedName(i, t) == "script_" \o ToString(i) \o "_" \o t

\* the ordinal an entry of the ScriptSet is named after, 0 if none
OrdinalOf(e) ==
    LET named == {i \in 1..Len(Candidates) : e.key = ExpectedName(i, e.value.type)}
    IN  IF named = {} THEN 0 ELSE Min(named)

OrdinalsOf(d) == [k \in 1..Len(d) |-> OrdinalOf(d[k])]

RECURSIVE Ascending(_)
Ascending(S) == IF S = {} THEN <<>> ELSE <<Min(S)>> \o Ascending(S \ {Min(S)})

InScriptSet(i) == \E k \in 1..Len(scripts) : OrdinalOf(scripts[k]) = i

\* C1: the ScriptSet lists the normal blocks in order of appearance, then the
\* cleanup blocks in order of appearance; no cleanup entry precedes a normal one.
C1_NormalThenCleanup ==
    pc = "parsed" =>
        OrdinalsOf(scripts) = Ascending(OrdinalsDecided("normal"))
                                  \o Ascending(OrdinalsDecided("cleanup"))

\* the example of the claim: [1:normal, 2:cleanup, 3:normal] gives [1, 3, 2]
C1_Witness ==
    /\ pc = "parsed"
    /\ Len(Candidates) = 3
    /\ Decision(Candidates[1]) = "normal"
    /\ Decision(Candidates[2]) = "cleanup"
    /\ Decision(Candidates[3]) = "normal"
    /\ OrdinalsOf(scripts) = <<1, 3, 2>>

\* C5: every candidate gets exactly one of the four decisions, and a candidate
\* decided rejected-non-executable or rejected-runner is in no entry of the
\* ScriptSet, while every other candidate is in exactly one.
C5_RejectedNeverInScriptSet ==
    pc = "parsed" =>
        \A i \in 1..Len(Candidates) :
            /\ Cardinality({d \in {"rejected-non-executable", "rejected-runner",
                                    "cleanup", "normal"} : i \in OrdinalsDecided(d)}) = 1
            /\ i \in OrdinalsDecided("rejected-non-executable")
                     \cup OrdinalsDecided("rejected-runner")
                   => ~InScriptSet(i)
            /\ i \in OrdinalsDecided("cleanup") \cup OrdinalsDecided("normal")
                   => Cardinality({k \in 1..Len(scripts) : OrdinalOf(scripts[k]) = i}) = 1

C5_Witness ==
    /\ pc = "parsed"
    /\ OrdinalsDecided("rejected-non-executable") # {}
    /\ OrdinalsDecided("rejected-runner") # {}
    /\ Len(scripts) >= 1

\* C6: a block whose declared language is, ignoring letter case, on the
\* denylist is never in the ScriptSet whatever its content, and no entry has a
\* denylisted type; one bash fence and one yaml fence give exactly script_1_bash.
C6_DenylistedNeverExtracted ==
    pc = "parsed" =>
        /\ \A i \in 1..Len(Candidates) :
               RuleTable[Candidates[i]].denied => ~InScriptSet(i)
        /\ \A k \in 1..Len(scripts) : scripts[k].value.type \notin DenyList
        /\ fences = <<[language |-> "bash", content |-> "#!/bin/bash\necho hi\n"],
                      [language |-> "yaml", content |-> "key: v\n"]>>
               => DictKeys(scripts) = <<"script_1_bash">>

C6_Witness ==
    /\ pc = "parsed"
    /\ fences = <<[language |-> "bash", content |-> "#!/bin/bash\necho hi\n"],
                  [language |-> "yaml", content |-> "key: v\n"]>>
    /\ DictKeys(scripts) = <<"script_1_bash">>

\* C7: the checks apply in the order denylist, runner, cleanup, normal: a block
\* that meets the runner rule and the cleanup rule is dropped, not deferred,
\* and a denylisted block is dropped even when its content meets either rule.
C7_FirstMatchWins ==
    pc = "parsed" =>
        \A i \in 1..Len(Candidates) :
            LET r == RuleTable[Candidates[i]]
            IN  /\ ~r.denied /\ r.runner /\ r.cleanup => ~InScriptSet(i)
                /\ r.denied /\ (r.runner \/ r.cleanup) => ~InScriptSet(i)
                /\ ~r.denied /\ ~r.runner => InScriptSet(i)

C7_Witness ==
    /\ pc = "parsed"
    /\ \E i \in 1..Len(Candidates) :
           /\ ~RuleTable[Candidates[i]].denied
           /\ RuleTable[Candidates[i]].runner
           /\ RuleTable[Candidates[i]].cleanup
    /\ \E i \in 1..Len(Candidates) :
           /\ RuleTable[Candidates[i]].denied
           /\ RuleTable[Candidates[i]].cleanup
    /\ Len(scripts) >= 1

\* C10: the matched blocks are exactly the fenced blocks with a language token,
\* numbered from 1 in order of appearance (rejected ones included, fences
\* without a token excluded); every entry is named script_<ordinal>_<type> after
\* the block it holds; names are pairwise distinct and the number of entries is
\* the number of candidates not rejected.
C10_OrdinalNames ==
    pc = "parsed" =>
        /\ FindAll(response)
               = [i \in 1..Len(Candidates) |->
                    [language |-> Candidates[i].language,
                     content |-> Candidates[i].content]]
        /\ \A k \in 1..Len(scripts) :
               /\ OrdinalOf(scripts[k]) \in 1..Len(Candidates)
               /\ scripts[k].value.content
                      = Strip(Candidates[OrdinalOf(scripts[k])].content)
        /\ \A k, l \in 1..Len(scripts) : scripts[k].key = scripts[l].key => k = l
        /\ Len(scripts) = Cardinality(OrdinalsDecided("normal")
                                          \cup OrdinalsDecided("cleanup"))

\* names with a gap, and a fence without a token that took no ordinal
C10_Witness ==
    /\ pc = "parsed"
    /\ Len(fences) = 3
    /\ fences[1].language = ""
    /\ DictKeys(scripts) = <<"script_2_bash">>

\* C8: _is_runner_script is true exactly when the content, without its blank
\* lines and its lines starting with '#', has at most two lines and one of them
\* has both 'chmod' and '.sh' or starts with './' and has '.sh'; three or more
\* such lines, or none, is never a runner; a block the function calls a runner
\* is not extracted.
C8_RunnerExactly ==
    pc \in {"response", "parsed"} =>
        /\ verdict = RunnerRule(content)
        /\ Cardinality(SubstantiveStarts(content)) >= 3 => verdict = FALSE
        /\ SubstantiveStarts(content) = {} => verdict = FALSE
        /\ content = "chmod +x run.sh\n./run.sh" => verdict = TRUE
        /\ pc = "parsed" /\ verdict = TRUE => scripts = <<>>

\* the example of the claim, found to be a runner and dropped
C8_Witness ==
    /\ pc = "parsed"
    /\ content = "chmod +x run.sh\n./run.sh"
    /\ verdict = TRUE
    /\ scripts = <<>>

\* C9: _is_cleanup_script is true exactly when some indicator occurs, ignoring
\* letter case, wholly inside the first 200 characters and the content also has
\* an echo or a comment '# <indicator>' / '#<indicator>'; a cleanup block is
\* placed after the normal block that follows it.
C9_CleanupExactly ==
    pc \in {"response", "parsed"} =>
        /\ verdict = CleanupRule(content)
        /\ LET low == Lower(content)
           IN  /\ (\A ind \in Indicators : ~OccursWithin(ind, low, 200))
                      => verdict = FALSE
               /\ (\A ind \in Indicators :
                       ~In("echo", low) /\ ~In("#" \o ind, low)
                           /\ ~In("# " \o ind, low))
                      => verdict = FALSE
        /\ content = "# cleanup\nrm -rf /tmp/x\necho \"done\"" => verdict = TRUE
        /\ pc = "parsed" =>
               DictKeys(scripts) = IF verdict
                                   THEN <<"script_2_bash", "script_1_bash">>
                                   ELSE <<"script_1_bash", "script_2_bash">>

\* the example of the claim, classified cleanup and moved behind the normal block
C9_Witness ==
    /\ pc = "parsed"
    /\ content = "# cleanup\nrm -rf /tmp/x\necho \"done\""
    /\ verdict = TRUE
    /\ DictKeys(scripts) = <<"script_2_bash", "script_1_bash">>

\* an indicator with an echo, but lying across the end of the window
C9_WitnessBeyondWindow ==
    /\ pc = "parsed"
    /\ verdict = FALSE
    /\ LET low == Lower(content)
       IN  \E ind \in Indicators : In(ind, low) /\ In("echo", low)

\* the synonym table of the claim, on lower-case tokens
SynonymTable ==
    [l \in {"sh", "shell", "bash", "py", "python3"} |->
        IF l \in {"py", "python3"} THEN "python" ELSE "bash"]

\* the type the claim gives to a declared language
TypeOfLanguage(language) ==
    IF Lower(language) \in DOMAIN SynonymTable
    THEN SynonymTable[Lower(language)] ELSE Lower(language)

\* C11: the type of every entry of the ScriptSet is the synonym-table image of
\* the declared language of its block, whatever the content and the other
\* blocks: sh, shell, bash in any letter case give bash, py and python3 give
\* python, any other language not on the denylist is kept lower-cased; the
\* type is a fixed point of the mapping, and two blocks whose languages differ
\* only in letter case get the same type.
C11_TypeFromLanguage ==
    pc = "parsed" =>
        /\ \A i \in 1..Len(fences) :
               Lower(fences[i].language) \notin DenyList => InScriptSet(i)
        /\ \A k \in 1..Len(scripts) :
               LET i == OrdinalOf(scripts[k])
                   t == scripts[k].value.type
               IN  /\ i \in 1..Len(fences)
                   /\ t = TypeOfLanguage(fences[i].language)
                   /\ NormalizeType(ScriptType(t)) = t
                   /\ Lower(fences[i].language) \in {"sh", "shell", "bash"} => t = "bash"
                   /\ Lower(fences[i].language) \in {"py", "python3"} => t = "python"
        /\ \A k, l \in 1..Len(scripts) :
               Lower(fences[OrdinalOf(scripts[k])].language)
                   = Lower(fences[OrdinalOf(scripts[l])].language)
               => scripts[k].value.type = scripts[l].value.type

\* 'Shell' with a normal content and 'PYTHON3' with a cleanup content
C11_Witness ==
    /\ pc = "parsed"
    /\ Len(fences) = 2
    /\ fences[1].language = "Shell"
    /\ fences[2].language = "PYTHON3"
    /\ fences[1].content # fences[2].content
    /\ Len(scripts) = 2
    /\ \E k \in 1..2 : scripts[k].key = "script_1_bash"
    /\ \E k \in 1..2 : scripts[k].key = "script_2_python"

(* Vocabulary of the claims about the execution *)

\* the names of the scripts whose process was started, in order
Started == [j \in 1..((Len(events) + 1) \div 2) |-> events[2 * j - 1].script]

\* the decision of the block an entry of the ScriptSet was extracted from
DecisionOfScript(name) ==
    Decision(Candidates[OrdinalOf([key |-> name, value |-> DictGet(scripts, name)])])

\* the run has ended in the error of the given stage
FetchFailed == results.error = "Failed to fetch documentation"

ProviderFailed == results.error = "Failed to generate test scripts"

\* no candidate of the response escapes rejection
AllRejected ==
    OrdinalsDecided("normal") \cup OrdinalsDecided("cleanup") = {}

\* C12: when the response received holds no candidate that escapes rejection
\* (no fenced block, nothing at all, or rejected candidates only), the
\* ScriptSet is empty and the run returns at once with the error 'No test
\* scripts were generated', scripts_generated = 0, scripts_executed = 0 and no
\* process started; an empty ScriptSet never reaches the executor.
C12_EmptyScriptSetShortCircuits ==
    /\ pc \in {"execute", "loop", "collect", "interrupted"} => scripts # <<>>
    /\ (calls.send_message > 0 /\ ~ProviderFailed /\ AllRejected) =>
           /\ pc = "returned"
           /\ scripts = <<>>
           /\ results.error = "No test scripts were generated"
           /\ results.success = FALSE
           /\ results.scripts_generated = 0
           /\ results.scripts_executed = 0
           /\ results.details = <<>>
           /\ events = <<>>
    /\ results.error = "No test scripts were generated" => AllRejected

\* a response whose two candidates are rejected, one as non-executable and
\* one as a runner
C12_Witness ==
    /\ pc = "returned"
    /\ Len(Candidates) = 2
    /\ OrdinalsDecided("rejected-non-executable") = {1}
    /\ OrdinalsDecided("rejected-runner") = {2}
    /\ results.error = "No test scripts were generated"

\* a response of prose only
C12_WitnessProse ==
    /\ pc = "returned"
    /\ response = "Nothing to run here.\n"
    /\ results.error = "No test scripts were generated"

\* the empty response
C12_WitnessEmpty ==
    /\ pc = "returned"
    /\ calls.send_message = 1
    /\ response = ""
    /\ results.error = "No test scripts were generated"

\* C13: a failed fetch ends the run with its error, every count zero, the
\* provider not called and no process started; a failed provider call ends
\* the run with its error, scripts_generated, scripts_executed, scripts_passed
\* and scripts_failed zero and no process started; fetch_multiple and
\* send_message are each called at most once, and the error, once set, is
\* the one the report is returned with.
C13_StageFailureShortCircuits ==
    /\ FetchFailed =>
           /\ pc = "returned"
           /\ results = [InitialResults EXCEPT !.error = "Failed to fetch documentation"]
           /\ calls = [fetch_multiple |-> 1, send_message |-> 0]
           /\ events = <<>>
    /\ ProviderFailed =>
           /\ pc = "returned"
           /\ results.success = FALSE
           /\ results.scripts_generated = 0
           /\ results.scripts_executed = 0
           /\ results.scripts_passed = 0
           /\ results.scripts_failed = 0
           /\ results.scripts = <<>>
           /\ results.details = <<>>
           /\ calls = [fetch_multiple |-> 1, send_message |-> 1]
           /\ events = <<>>
    /\ calls.fetch_multiple <= 1
    /\ calls.send_message <= 1
    /\ results.error # None => pc = "returned"

\* the provider call failed after the documents were fetched
C13_Witness ==
    /\ pc = "returned"
    /\ ProviderFailed
    /\ results.documentation_count = MaxDocs
    /\ calls.send_message = 1

C13_WitnessFetch ==
    /\ pc = "returned"
    /\ FetchFailed
    /\ calls.fetch_multiple = 1

C14_WitnessTwo ==
    /\ pc = "execute"
    /\ max_iterations = 2
    /\ calls.send_message = 1

\* the triple execute_script returns when the process outlives the timeout
TimeoutResult == Returned(FALSE, "", TimeoutMessage(timeout))

RanToExit == behaviour.kind = "exit"

\* C15 as claimed: success exactly on exit status zero; a timeout gives
\* success = false, an empty stdout and a stderr that states the timeout; and
\* no process that exits non-zero gives the triple a timeout gives.
C15_TimeoutAlwaysTellable ==
    pc = "executed" /\ ~verdict.raised =>
        /\ verdict.success <=> (RanToExit /\ behaviour.returncode = 0)
        /\ behaviour.kind = "timeout" =>
               /\ verdict = TimeoutResult
               /\ In("timed out", verdict.stderr)
        /\ (RanToExit /\ behaviour.returncode # 0) => verdict # TimeoutResult

\* C15 as amended: success exactly on exit status zero; a timeout gives
\* (false, '', 'Script execution timed out after <timeout> seconds'); a
\* process that exits non-zero gives (false, its stdout, its stderr), which
\* is the triple of a timeout exactly when it wrote nothing to stdout and
\* that very sentence to stderr; the failures to write or to start the
\* script give a stderr that does not speak of a timeout.
C15_TimeoutTellableByMessage ==
    pc = "executed" /\ ~verdict.raised =>
        /\ verdict.success <=> (RanToExit /\ behaviour.returncode = 0)
        /\ behaviour.kind = "timeout" =>
               /\ verdict = TimeoutResult
               /\ In("timed out", verdict.stderr)
        /\ RanToExit =>
               /\ verdict.stdout = behaviour.stdout
               /\ verdict.stderr = behaviour.stderr
        /\ (RanToExit /\ behaviour.returncode # 0) =>
               (verdict = TimeoutResult
                    <=> /\ behaviour.stdout = ""
                        /\ behaviour.stderr = TimeoutMessage(timeout))
        /\ behaviour.kind \in {"write_error", "spawn_error"} =>
               /\ verdict # TimeoutResult
               /\ ~In("timed out", verdict.stderr)

\* the scenario of the unit test: a timeout of one second
C15_Witness ==
    /\ pc = "executed"
    /\ behaviour.kind = "timeout"
    /\ timeout = 1
    /\ verdict = Returned(FALSE, "", "Script execution timed out after 1 seconds")

\* a process that exits 1 with a message of its own about another timeout
C15_WitnessOwnMessage ==
    /\ pc = "executed"
    /\ RanToExit
    /\ behaviour.returncode = 1
    /\ In("timed out", behaviour.stderr)
    /\ verdict # TimeoutResult

\* C17: execute_script never raises: on a timeout and on every failure to
\* write or to start the script it returns (false, '', reason) with a reason
\* that is not empty.
C17_FailsClosed ==
    pc = "executed" =>
        /\ ~verdict.raised
        /\ behaviour.kind \in {"timeout", "write_error", "spawn_error"} =>
               /\ verdict.success = FALSE
               /\ verdict.stdout = ""
               /\ verdict.stderr # ""

\* the recorded outcome is that of a timeout
TimedOut(r) == r.stderr = TimeoutMessage(DefaultTimeout)

\* the recorded outcome is that of a process that exited non-zero
ExitedNonZero(r) == ~r.success /\ r.stderr = "boom\n"

C16_WitnessStop ==
    /\ stop_on_failure
    /\ pc = "returned"
    /\ Len(scripts) = 3
    /\ Len(execution_results) = 1
    /\ TimedOut(execution_results[1].value)

C19_AlwaysReturnsReport ==
    pc \in {"returned", "interrupted"} =>
        /\ pc = "returned"
        /\ {"success", "documentation_count", "scripts_generated",
            "scripts_executed", "scripts_passed", "scripts_failed", "scripts",
            "details"} \subseteq DOMAIN results
        /\ results.scripts_executed = Len(results.details)
        /\ results.scripts_executed = results.scripts_passed + results.scripts_failed

\* the report before the execution stage
ReportBeforeExecution ==
    [InitialResults EXCEPT
        !.documentation_count = results.documentation_count,
        !.scripts_generated = Len(scripts),
        !.scripts = scripts]

\* the report a run with verbose = False returns for the same result of the
\* fetch, the same response, the same failures of the file system and the
\* same outcomes of the scripts: nothing is printed, so no print can raise
QuietReport ==
    IF FetchFailed \/ ProviderFailed
    THEN [InitialResults EXCEPT
             !.documentation_count = results.documentation_count,
             !.error = results.error]
    ELSE IF scripts = <<>>
    THEN [ReportBeforeExecution EXCEPT !.error = "No test scripts were generated"]
    ELSE IF results.error \in
                {"Failed to execute scripts: [Errno 13] Permission denied",
                 "Failed to execute scripts: [Errno 2] No such file or directory"}
    THEN [ReportBeforeExecution EXCEPT !.error = results.error]
    ELSE LET c == Collected(ReportBeforeExecution, execution_results)
         IN  [c EXCEPT !.success = OverallSuccess(c)]

\* C20: the report a run returns is the report of the quiet run on the same
\* inputs, whether verbose is set or not.
C20_VerboseIsObserver ==
    pc = "returned" => results = QuietReport

\* C2: one process at a time, in ScriptSet order: the events alternate start and
\* end of the same script, the scripts started and the outcomes recorded are
\* prefixes of the ScriptSet, and no normal script is run after a cleanup script.
C2_OneAtATimeInOrder ==
    /\ \A k \in 1..Len(events) :
           /\ events[k].kind = IF k % 2 = 1 THEN "start" ELSE "end"
           /\ k % 2 = 0 => events[k].script = events[k - 1].script
    /\ (in_flight # None) = (Len(events) % 2 = 1)
    /\ Len(Started) <= Len(scripts)
    /\ \A j \in 1..Len(Started) : Started[j] = scripts[j].key
    /\ Len(execution_results) <= Len(Started)
    /\ \A j \in 1..Len(execution_results) : execution_results[j].key = scripts[j].key
    /\ \A j, k \in 1..Len(Started) :
           j < k => ~(/\ DecisionOfScript(Started[j]) = "cleanup"
                      /\ DecisionOfScript(Started[k]) = "normal")

\* three scripts run, the cleanup block written second run last
C2_Witness ==
    /\ pc = "collect"
    /\ DictKeys(execution_results) = <<"script_1_bash", "script_3_bash", "script_2_bash">>
    /\ DecisionOfScript("script_2_bash") = "cleanup"

\* C3: with stop_on_failure set, only the last recorded outcome can be a
\* failure, after a recorded failure no further script is started, and the
\* details of the report hold the executed scripts only.
C3_StopsAtFirstFailure ==
    stop_on_failure =>
        /\ \A k \in 1..(Len(execution_results) - 1) : execution_results[k].value.success
        /\ (\E k \in 1..Len(execution_results) : ~execution_results[k].value.success)
               => /\ in_flight = None
                  /\ pc \in {"collect", "returned"}
                  /\ Len(Started) = Len(execution_results)
        /\ pc = "returned" =>
               /\ Len(results.details) <= Len(execution_results)
               /\ \A k \in 1..Len(results.details) :
                      /\ results.details[k].script = execution_results[k].key
                      /\ results.details[k].success = execution_results[k].value.success

\* the second of three scripts failed and the third has no entry
C3_Witness ==
    /\ stop_on_failure
    /\ pc = "returned"
    /\ Len(scripts) = 3
    /\ Len(execution_results) = 2
    /\ ~execution_results[2].value.success
    /\ [k \in 1..Len(results.details) |-> results.details[k].script]
           = <<scripts[1].key, scripts[2].key>>

\* C4: in every report returned, success is true if and only if
\* scripts_executed > 0 and scripts_failed = 0.
C4_SuccessIffCounts ==
    pc = "returned" =>
        (results.success <=> (results.scripts_executed > 0 /\ results.scripts_failed = 0))

\* C26: in every report returned, scripts_passed + scripts_failed =
\* scripts_executed = number of details, scripts_executed <= scripts_generated
\* = number of entries of scripts, and the details follow the order of
\* execution, each naming a distinct script of the ScriptSet.
C26_ReportCountsAgree ==
    pc = "returned" =>
        /\ results.scripts_passed + results.scripts_failed = results.scripts_executed
        /\ results.scripts_executed = Len(results.details)
        /\ results.scripts_executed <= results.scripts_generated
        /\ results.scripts_generated = Len(results.scripts)
        /\ Len(results.details) <= Len(Started)
        /\ \A k \in 1..Len(results.details) :
               /\ results.details[k].script = Started[k]
               /\ DictHas(results.scripts, results.details[k].script)
        /\ \A j, k \in 1..Len(results.details) :
               j # k => results.details[j].script # results.details[k].script

\* three scripts generated and executed, the middle one failed, and the
\* cleanup block written second was run and reported last
C26_Witness ==
    /\ pc = "returned"
    /\ ~stop_on_failure
    /\ results.scripts_generated = 3
    /\ results.scripts_passed = 2
    /\ results.scripts_failed = 1
    /\ [k \in 1..Len(results.details) |-> results.details[k].script]
           = <<"script_1_bash", "script_3_bash", "script_2_bash">>
    /\ ~results.details[2].success

\* the run is over and had started to execute its scripts
ReachedExecution == pc \in {"returned", "interrupted"} /\ Len(Started) > 0

CleanupScripts == {k \in 1..Len(scripts) : DecisionOfScript(scripts[k].key) = "cleanup"}

\* C27: with stop_on_failure, when a script that precedes the cleanup scripts
\* has failed, no cleanup script of the run is executed; without
\* stop_on_failure, every run that reaches the execution stage executes every
\* cleanup script.
C27_CleanupScriptsRun ==
    /\ stop_on_failure =>
           ((\E k \in 1..Len(execution_results) :
                 /\ ~execution_results[k].value.success
                 /\ k \notin CleanupScripts)
                => \A j \in 1..Len(Started) : j \notin CleanupScripts)
    /\ (~stop_on_failure /\ ReachedExecution) =>
           \A k \in CleanupScripts : k <= Len(Started)

(***************************************************************************)
(* ScriptExecutor: construction, the file an execution writes, the command *)
(* it runs, and cleanup (src/doc_tester/executor.py).                      *)
(***************************************************************************)

\* the variables of the parser and of test_documentation are not touched
CoreIdle ==
    /\ fences = <<>>
    /\ response = ""
    /\ scripts = <<>>
    /\ content = ""
    /\ verdict = None
    /\ stop_on_failure = FALSE
    /\ max_iterations = 3
    /\ verbose = FALSE
    /\ calls = NoCalls
    /\ timeout = DefaultTimeout
    /\ behaviour = None
    /\ results = InitialResults
    /\ execution_results = <<>>
    /\ idx = 0
    /\ in_flight = None
    /\ events = <<>>

\* re.sub(r'[^\w\-.]', '_', s), executor.py:78
RECURSIVE SubUnsafe(_)
SubUnsafe(s) ==
    IF Len(s) = 0 THEN ""
    ELSE (IF IsWordCh(Ch(s, 1)) \/ Ch(s, 1) \in {"-", "."} THEN Ch(s, 1) ELSE "_")
             \o SubUnsafe(SubSeq(s, 2, Len(s)))

\* s.strip('_'), executor.py:80
StripUnderscores(s) ==
    LET keep == {i \in 1..Len(s) : Ch(s, i) # "_"}
    IN  IF keep = {} THEN "" ELSE SubSeq(s, Min(keep), Max(keep))

\* executor.py:82
ContextLimit == 50

\* s[-50:] if len(s) > 50 else s, executor.py:82
LastChars(s) ==
    IF Len(s) > ContextLimit THEN SubSeq(s, Len(s) - ContextLimit + 1, Len(s)) ELSE s

\* lines 76-82
Sanitize(source_context) == LastChars(StripUnderscores(SubUnsafe(source_context)))

\* the source contexts of the runs: a relative path with a blank in it, and
\* a URL longer than ContextLimit
SourceContexts ==
    {None, "docs/setup guide.md",
     "https://example.com/projects/doctai/docs/getting-started/install.md"}

\* Sanitize, tabulated over the source contexts
SanitizeTable == [c \in SourceContexts \ {None} |-> Sanitize(c)]

Sanitized(source_context) == SanitizeTable[source_context]

\* the types the parser hands over
ScriptTypes == {NormalizeType(Lower(l)) : l \in {"sh", "Python3", "ruby"}}

\* script_type.lower(), tabulated over the types
LowerTable == [t \in ScriptTypes |-> Lower(t)]

LowerType(script_type) == LowerTable[script_type]

\* lines 65-70 and 111-118: the extension of the script file
Extension(script_type) ==
    IF LowerType(script_type) \in {"bash", "sh"} THEN ".sh"
    ELSE IF LowerType(script_type) = "python" THEN ".py"
    ELSE "." \o script_type

\* mutant: every script is handed to the shell
Interpreter_shell_for_all(script_type) == <<"/bin/bash">>

\* lines 111-119: the interpreter, <<>> for None
Interpreter(script_type) ==
    IF LowerType(script_type) \in {"bash", "sh"} THEN <<"/bin/bash">>
    ELSE IF LowerType(script_type) = "python" THEN <<"python3">>
    ELSE <<>>

\* _generate_script_filename, lines 53-87; random_suffix is the draw of line 73
_generate_script_filename(source_context, script_type, script_index, random_suffix) ==
    IF source_context # None /\ source_context # ""
    THEN "_gen-" \o Sanitized(source_context) \o "-" \o random_suffix
             \o Extension(script_type)
    ELSE "_gen-script" \o ToString(script_index) \o "-" \o random_suffix
             \o Extension(script_type)

\* lines 122-128: where execute_script writes the script
ScriptPath(e, script_type, script_index, random_suffix) ==
    IF e.save_generated_scripts
    THEN cwd \o "/" \o _generate_script_filename(e.source_context, script_type,
                                                  script_index, random_suffix)
    ELSE e.work_dir \o "/test_script" \o Extension(script_type)

\* lines 152-155
Command(script_type, script_path) == Interpreter(script_type) \o <<script_path>>

(* Specification SpecExecutor: two runs in one current directory *)

Runs == {1, 2}

MaxWrites == 2

\* draws of random.choices(string.ascii_lowercase + string.digits, k=6)
Suffixes == {"k3x9qz", "a1b2c3"}

ScriptContents == {"#!/usr/bin/env python3\nprint(1)\n", "echo hi\n"}

WorkDirs == {None, "out"}

\* tempfile.mkdtemp(prefix="doc_tester_"): a fresh directory for every call
TempDir(r) == "/tmp/doc_tester_" \o ToString(r)

NoExecutor ==
    [state |-> "none", work_dir |-> None, cleanup_work_dir |-> FALSE,
     source_context |-> None, save_generated_scripts |-> TRUE,
     generated_script_paths |-> <<>>, idx |-> 0, rmtree |-> None]

NoCommand ==
    [script_type |-> None, script_content |-> "", script_path |-> None,
     argv |-> <<>>]

InitExecutor ==
    /\ pc = "executor"
    /\ CoreIdle
    /\ FetcherIdle /\ ClientIdle /\ ConfigIdle /\ RefineIdle
    /\ \E source_context \in SourceContexts, save \in BOOLEAN :
           executors = [r \in Runs |->
                           [NoExecutor EXCEPT !.source_context = source_context,
                                              !.save_generated_scripts = save]]
    /\ cwd = "/repo"
    /\ dirs = {"/repo"}
    /\ files = <<>>
    /\ cmd = NoCommand

\* ScriptExecutor.__init__, lines 37-48
NewScriptExecutor ==
    \E r \in Runs, work_dir \in WorkDirs :
        /\ executors[r].state = "none"
        /\ LET wd == IF work_dir # None THEN work_dir ELSE TempDir(r)
           IN  /\ executors' = [executors EXCEPT
                                   ![r].state = "entered",
                                   ![r].work_dir = wd,
                                   ![r].cleanup_work_dir = (work_dir = None)]
               /\ dirs' = dirs \cup {wd}
        /\ UNCHANGED <<pc, coreRest, cwd, files, cmd, fetcherVars, clientVars,
                       configVars, refineVars>>

\* the number of script files written so far
RECURSIVE WritesFrom(_, _)
WritesFrom(d, i) == IF i > Len(d) THEN 0 ELSE Len(d[i].value) + WritesFrom(d, i + 1)

\* open(script_path, 'w').write(...): the file is created or overwritten
Written(d, path, writer) ==
    DictSet(d, path, (IF DictHas(d, path) THEN DictGet(d, path) ELSE <<>>) \o <<writer>>)

\* execute_script, lines 110-155: the file is written and the command prepared
WriteScript ==
    \E r \in Runs, script_type \in ScriptTypes, script_content \in ScriptContents,
       random_suffix \in Suffixes :
        /\ executors[r].state = "entered"
        /\ WritesFrom(files, 1) < MaxWrites
        /\ LET e == executors[r]
               script_path == ScriptPath(e, script_type, e.idx, random_suffix)
           IN  /\ files' = Written(files, script_path, <<r, e.idx>>)
               /\ executors' = [executors EXCEPT
                                   ![r].generated_script_paths =
                                       IF e.save_generated_scripts
                                       THEN Append(@, script_path) ELSE @,
                                   ![r].idx = @ + 1]
               /\ cmd' = [script_type |-> script_type,
                          script_content |-> script_content,
                          script_path |-> script_path,
                          argv |-> Command(script_type, script_path)]
        /\ UNCHANGED <<pc, coreRest, cwd, dirs, fetcherVars, clientVars,
                       configVars, refineVars>>

\* the files outside directory d
RECURSIVE Outside(_, _, _)
Outside(d, dir, i) ==
    IF i > Len(d) THEN <<>>
    ELSE (IF StartsWith(d[i].key, dir \o "/") THEN <<>> ELSE <<d[i]>>)
             \o Outside(d, dir, i + 1)

\* mutant: a supplied working directory is removed as well
ShouldRemove_any_dir(e) == e.work_dir \in dirs

\* the condition of line 244
ShouldRemove(e) == e.cleanup_work_dir /\ e.work_dir \in dirs

\* cleanup, lines 242-250, called by __exit__ (264-266); shutil.rmtree either
\* removes the tree or raises, and what it raises is caught at line 249
Cleanup ==
    \E r \in Runs, removed \in BOOLEAN :
        /\ executors[r].state = "entered"
        /\ LET e == executors[r]
           IN  IF ShouldRemove(e)
               THEN /\ executors' = [executors EXCEPT
                                        ![r].state = "exited",
                                        ![r].rmtree = IF removed THEN "removed"
                                                      ELSE "raised"]
                    /\ dirs' = IF removed THEN dirs \ {e.work_dir} ELSE dirs
                    /\ files' = IF removed THEN Outside(files, e.work_dir, 1)
                                ELSE files
               ELSE /\ removed
                    /\ executors' = [executors EXCEPT ![r].state = "exited"]
                    /\ UNCHANGED <<dirs, files>>
        /\ UNCHANGED <<pc, coreRest, cwd, cmd, fetcherVars, clientVars,
                       configVars, refineVars>>

NextExecutor == NewScriptExecutor \/ WriteScript \/ Cleanup

SpecExecutor == InitExecutor /\ [][NextExecutor]_vars

\* the executions that wrote a path
Writers(path) == DictGet(files, path)

Paths == {files[i].key : i \in 1..Len(files)}

\* C21: every script is written to a uniquely named file: no two
\* executions, of one run or of two runs sharing the source context and the
\* current directory, write the same path (the executors save generated
\* scripts, as test_documentation constructs them).
C21_UniquePaths ==
    (\A r \in Runs : executors[r].save_generated_scripts)
        => \A path \in Paths : Len(Writers(path)) <= 1

ExpectedArgv(script_type, script_path) ==
    CASE script_type = "bash" -> <<"/bin/bash", script_path>>
      [] script_type = "python" -> <<"python3", script_path>>
      [] OTHER -> <<script_path>>

\* C25: the command of an execution is fixed by the normalized type of the
\* script: bash runs under the shell, python under the Python interpreter,
\* every other type is executed directly; content and position have no say.
C25_InterpreterByType ==
    cmd.script_type # None => cmd.argv = ExpectedArgv(cmd.script_type, cmd.script_path)

\* a script with a Python shebang, of a type that is neither bash nor python,
\* run as the second script of its executor
C25_Witness ==
    /\ cmd.script_type = "ruby"
    /\ StartsWith(cmd.script_content, "#!/usr/bin/env python3")
    /\ cmd.argv = <<cmd.script_path>>
    /\ \E r \in Runs : executors[r].idx = 2

Exited(r) == executors[r].state = "exited"

Constructed(r) == executors[r].state # "none"

GeneratedFilesKept ==
    \A r \in Runs :
        \A i \in 1..Len(executors[r].generated_script_paths) :
            DictHas(files, executors[r].generated_script_paths[i])

SuppliedDirKept ==
    \A r \in Runs :
        Constructed(r) /\ ~executors[r].cleanup_work_dir
            => executors[r].work_dir \in dirs

\* C30 as stated: after every exit the working directory is gone if and only
\* if the executor created it as a temporary directory; a supplied directory
\* exists from construction on; the generated script files stay.
C30_RemovedIffTemporary ==
    /\ \A r \in Runs :
           Exited(r) => (executors[r].work_dir \notin dirs
                             <=> executors[r].cleanup_work_dir)
    /\ SuppliedDirKept
    /\ GeneratedFilesKept

\* C30, amended: after every exit the working directory is gone if and only
\* if the executor created it as a temporary directory and shutil.rmtree did
\* not raise; a supplied directory exists from construction on; the generated
\* script files stay.
C30_RemovedIffTemporaryAndRemovable ==
    /\ \A r \in Runs :
           Exited(r) => (executors[r].work_dir \notin dirs
                             <=> (executors[r].cleanup_work_dir
                                     /\ executors[r].rmtree # "raised"))
    /\ SuppliedDirKept
    /\ GeneratedFilesKept

\* one run left its temporary directory removed, the other was given a
\* directory that did not exist, wrote a script and left
C30_Witness ==
    \E r, q \in Runs :
        /\ Exited(r) /\ executors[r].cleanup_work_dir
        /\ executors[r].work_dir \notin dirs
        /\ Exited(q) /\ ~executors[q].cleanup_work_dir
        /\ executors[q].work_dir \in dirs
        /\ executors[q].generated_script_paths # <<>>

\* a temporary directory that rmtree could not remove
C30_WitnessLeftBehind ==
    \E r \in Runs :
        /\ Exited(r) /\ executors[r].cleanup_work_dir
        /\ executors[r].rmtree = "raised"
        /\ executors[r].work_dir \in dirs

(***************************************************************************)
(* DocumentationFetcher (src/doc_tester/fetcher.py)                        *)
(***************************************************************************)

\* what fetch finds: files (readable or not), directories with their files
\* in rglob order, URLs that answer or do not; every other path is missing
World ==
    << [key |-> "README.md", value |-> [kind |-> "file", text |-> "# Setup\n"]],
       [key |-> "EMPTY.md", value |-> [kind |-> "file", text |-> ""]],
       [key |-> "secret.md", value |-> [kind |-> "unreadable"]],
       [key |-> "docs", value |->
           [kind |-> "dir",
            entries |-> <<"docs/a.md", "docs/b.TXT", "docs/c.py", "docs/d.rst">>]],
       [key |-> "docs/a.md", value |-> [kind |-> "file", text |-> "A"]],
       [key |-> "docs/b.TXT", value |-> [kind |-> "file", text |-> "B"]],
       [key |-> "docs/c.py", value |-> [kind |-> "file", text |-> "C"]],
       [key |-> "docs/d.rst", value |-> [kind |-> "unreadable"]],
       [key |-> "src", value |->
           [kind |-> "dir", entries |-> <<"src/main.py", "src/NOTES.md">>]],
       [key |-> "src/main.py", value |-> [kind |-> "file", text |-> "M"]],
       [key |-> "src/NOTES.md", value |-> [kind |-> "unreadable"]],
       [key |-> "https://example.com/guide", value |->
           [kind |-> "url", text |-> "<html>guide</html>"]],
       [key |-> "https://example.com/gone", value |-> [kind |-> "url_error"]] >>

\* lines 102: doc_extensions
doc_extensions == {".md", ".txt", ".rst", ".adoc", ".markdown"}

\* Path.suffix: the last dot of the name and what follows it
Suffix(path) ==
    LET dots == {i \in 1..Len(path) : Ch(path, i) = "."}
    IN  IF dots = {} THEN "" ELSE SubSeq(path, Max(dots), Len(path))

\* the outcomes of a fetch: a dict, or the ValueError raised
Fetched(d) == [raised |-> None, docs |-> d]

ValueError == [raised |-> "ValueError", docs |-> <<>>]

\* _is_url, lines 57-63: a scheme and a network location
_is_url(source) == StartsWith(source, "https://") /\ Len(source) > Len("https://")

\* _fetch_from_url, lines 65-72
_fetch_from_url(url) ==
    IF DictHas(World, url) /\ DictGet(World, url).kind = "url"
    THEN Fetched(<<[key |-> url, value |-> DictGet(World, url).text]>>)
    ELSE ValueError

\* _read_file, lines 88-95
_read_file(file_path) ==
    IF DictGet(World, file_path).kind = "file"
    THEN Fetched(<<[key |-> file_path, value |-> DictGet(World, file_path).text]>>)
    ELSE ValueError

\* the loop of _read_directory, lines 105-110: an unreadable file is skipped
RECURSIVE ReadEntries(_, _, _)
ReadEntries(entries, i, acc) ==
    IF i > Len(entries) THEN acc
    ELSE LET file_path == entries[i]
             read == _read_file(file_path)
         IN  IF Lower(Suffix(file_path)) \in doc_extensions /\ read.raised = None
             THEN ReadEntries(entries, i + 1, DictUpdate(acc, read.docs))
             ELSE ReadEntries(entries, i + 1, acc)

\* _read_directory, lines 97-116
_read_directory(dir_path) ==
    LET found == ReadEntries(DictGet(World, dir_path).entries, 1, <<>>)
    IN  IF found = <<>> THEN ValueError ELSE Fetched(found)

\* _fetch_from_path, lines 74-86
_fetch_from_path(path) ==
    IF ~DictHas(World, path) THEN ValueError
    ELSE IF DictGet(World, path).kind \in {"file", "unreadable"} THEN _read_file(path)
    ELSE IF DictGet(World, path).kind = "dir" THEN _read_directory(path)
    ELSE ValueError

\* fetch, lines 26-39
fetch(source) ==
    IF _is_url(source) THEN _fetch_from_url(source) ELSE _fetch_from_path(source)

\* the loop of fetch_multiple, lines 51-54: what a fetch raises leaves the loop
RECURSIVE FetchLoop(_, _, _)
FetchLoop(srcs, i, all_docs) ==
    IF i > Len(srcs) THEN Fetched(all_docs)
    ELSE LET one == fetch(srcs[i])
         IN  IF one.raised # None THEN one
             ELSE FetchLoop(srcs, i + 1, DictUpdate(all_docs, one.docs))

\* fetch_multiple, lines 41-55
fetch_multiple(srcs) == FetchLoop(srcs, 1, <<>>)

(* Specification SpecFetch: fetch_multiple on every list of sources *)

MaxSources == 2

SourceLibrary ==
    {"README.md", "EMPTY.md", "secret.md", "missing.md", "docs", "src",
     "https://example.com/guide", "https://example.com/gone"}

SourceLists == UNION {[1..n -> SourceLibrary] : n \in 0..MaxSources}

NotFetched == [raised |-> None, docs |-> <<>>]

InitFetch ==
    /\ pc = "fetch_multiple"
    /\ CoreIdle
    /\ ExecutorIdle /\ ClientIdle /\ ConfigIdle /\ RefineIdle
    /\ sources \in SourceLists
    /\ docs = NotFetched

FetchMultiple ==
    /\ pc = "fetch_multiple"
    /\ docs' = fetch_multiple(sources)
    /\ pc' = "fetched"
    /\ UNCHANGED <<coreRest, sources, executorVars, clientVars, configVars,
                   refineVars>>

NextFetch == FetchMultiple

SpecFetch == InitFetch /\ [][NextFetch]_vars

\* C22: whenever fetch_multiple succeeds, the DocumentationSet is non-empty,
\* for every list of sources, the empty list included.
C22_FetchedNeverEmpty ==
    pc = "fetched" /\ docs.raised = None => docs.docs # <<>>

(***************************************************************************)
(* AIClient (src/doc_tester/ai_client.py)                                  *)
(***************************************************************************)

\* AIProvider; _parse_provider maps every other name to custom
Providers == {"openai", "anthropic", "gemini", "custom"}

\* what requests.post and the server do: the status of an HTTP error, a
\* timeout, a transport failure, or a 200 answer whose body is not JSON, is
\* an object without the expected key, holds an empty list of choices, holds
\* a first choice without the text, or is well formed
FailureKinds ==
    {"http_401", "http_403", "http_429", "http_400", "http_500", "timeout",
     "connection", "invalid_json", "missing_key", "empty_list", "no_text"}

\* what response.json() raises on a body that is not JSON: a
\* requests.exceptions.JSONDecodeError (a RequestException) from requests
\* 2.27 on, json.JSONDecodeError (a ValueError) before
DecodeErrors == {"RequestException", "ValueError"}

ReturnedText(text) == [raised |-> None, text |-> text, error |-> None]

Raises(type, error) == [raised |-> type, text |-> "", error |-> error]

\* the HTTPError handlers, lines 146-157, 203-214, 287-298; also_403 is the
\* extra status of line 288
OnHTTPError(kind, also_403) ==
    IF kind = "http_401" \/ (also_403 /\ kind = "http_403")
    THEN Raises("RuntimeError", "authentication failed")
    ELSE IF kind = "http_429" THEN Raises("RuntimeError", "rate limit exceeded")
    ELSE Raises("RuntimeError", "API error")

\* the handlers of a sender whose except clauses name the exceptions of
\* requests only: what the try block raises otherwise is not caught
OnRequestsError(b, decode_error, also_403, unexpected) ==
    CASE b.kind \in {"http_401", "http_403", "http_429", "http_400", "http_500"}
             -> OnHTTPError(b.kind, also_403)
      [] b.kind = "timeout" -> Raises("RuntimeError", "request timed out")
      [] b.kind = "connection" -> Raises("RuntimeError", "Failed to communicate")
      [] b.kind = "invalid_json" ->
             IF decode_error = "RequestException"
             THEN Raises("RuntimeError", "Failed to communicate")
             ELSE Raises("ValueError", "Expecting value")
      [] OTHER -> unexpected

\* result["choices"][0]["message"]["content"], line 138
_send_openai_message(b, decode_error) ==
    IF b.kind = "text" THEN ReturnedText(b.text)
    ELSE OnRequestsError(b, decode_error, FALSE,
             CASE b.kind = "missing_key" -> Raises("KeyError", "choices")
               [] b.kind = "empty_list" -> Raises("IndexError", "list index out of range")
               [] OTHER -> Raises("KeyError", "message"))

\* result["content"][0]["text"], line 195
_send_anthropic_message(b, decode_error) ==
    IF b.kind = "text" THEN ReturnedText(b.text)
    ELSE OnRequestsError(b, decode_error, FALSE,
             CASE b.kind = "missing_key" -> Raises("KeyError", "content")
               [] b.kind = "empty_list" -> Raises("IndexError", "list index out of range")
               [] OTHER -> Raises("KeyError", "text"))

\* lines 267-278: the candidate checks raise ValueError inside the try
_send_gemini_message(b, decode_error) ==
    IF b.kind = "text" THEN ReturnedText(b.text)
    ELSE OnRequestsError(b, decode_error, TRUE,
             CASE b.kind \in {"missing_key", "empty_list"}
                      -> Raises("ValueError", "No candidates in Gemini API response")
               [] OTHER -> Raises("ValueError", "Unexpected response format from Gemini API"))

\* lines 327-353: except Exception turns whatever is raised into RuntimeError
_send_custom_message(b, decode_error) ==
    IF b.kind = "text" THEN ReturnedText(b.text)
    ELSE Raises("RuntimeError", "Failed to communicate with custom AI")

\* send_message, lines 83-101
send_message(p, b, decode_error) ==
    CASE p = "openai" -> _send_openai_message(b, decode_error)
      [] p = "anthropic" -> _send_anthropic_message(b, decode_error)
      [] p = "gemini" -> _send_gemini_message(b, decode_error)
      [] OTHER -> _send_custom_message(b, decode_error)

\* mutant: the user message is recorded before the request is made
HistoryAfter_user_first(history, message, r) ==
    IF r.raised = None
    THEN history \o <<[role |-> "user", content |-> message],
                      [role |-> "assistant", content |-> r.text]>>
    ELSE Append(history, [role |-> "user", content |-> message])

\* lines 141-142, 198-199, 281-282, 345-346: reached only when no statement
\* of the try block has raised
HistoryAfter(history, message, r) ==
    IF r.raised = None
    THEN history \o <<[role |-> "user", content |-> message],
                      [role |-> "assistant", content |-> r.text]>>
    ELSE history

(* Specification SpecClient: sends and resets of one client *)

MaxExchanges == 2

Messages == {"Here is the documentation", "Please fix the script"}

Texts == {"~~~bash\necho hi\n~~~\n", ""}

ServerBehaviours ==
    {[kind |-> "text", text |-> t] : t \in Texts}
        \cup {[kind |-> k, text |-> ""] : k \in FailureKinds}

NoReply == [call |-> None, message |-> "", raised |-> None, text |-> "", error |-> None]

InitClient ==
    /\ pc = "client"
    /\ CoreIdle
    /\ ExecutorIdle /\ FetcherIdle /\ ConfigIdle /\ RefineIdle
    /\ provider \in Providers
    /\ conversation_history = <<>>
    /\ reply = NoReply

SendMessage ==
    \E message \in Messages, b \in ServerBehaviours, decode_error \in DecodeErrors :
        /\ Len(conversation_history) < 2 * MaxExchanges
        /\ LET r == send_message(provider, b, decode_error)
           IN  /\ reply' = [call |-> "send_message", message |-> message,
                            raised |-> r.raised, text |-> r.text, error |-> r.error]
               /\ conversation_history' = HistoryAfter(conversation_history, message, r)
        /\ UNCHANGED <<pc, coreRest, provider, executorVars, fetcherVars,
                       configVars, refineVars>>

\* reset_conversation, lines 355-357
ResetConversation ==
    /\ conversation_history' = <<>>
    /\ reply' = [NoReply EXCEPT !.call = "reset_conversation"]
    /\ UNCHANGED <<pc, coreRest, provider, executorVars, fetcherVars,
                   configVars, refineVars>>

NextClient == SendMessage \/ ResetConversation

SpecClient == InitClient /\ [][NextClient]_vars

\* C23: for every provider, send_message returns the text or fails with
\* RuntimeError; no other exception type escapes.
C23_OnlyRuntimeError ==
    reply.call = "send_message" => reply.raised \in {None, "RuntimeError"}

Alternating(history) ==
    /\ Len(history) % 2 = 0
    /\ \A k \in 1..Len(history) :
           history[k].role = IF k % 2 = 1 THEN "user" ELSE "assistant"

\* C28: the conversation history changes only on a successful send, which
\* appends the user entry and then the assistant entry, so that its length is
\* even and the roles alternate; a failed send leaves it as it was, and
\* reset_conversation empties it.
C28_HistoryFrame ==
    /\ [](Alternating(conversation_history))
    /\ [][ /\ (reply'.call = "send_message" /\ reply'.raised = None) =>
                  conversation_history' =
                      conversation_history
                          \o <<[role |-> "user", content |-> reply'.message],
                               [role |-> "assistant", content |-> reply'.text]>>
           /\ (reply'.call = "send_message" /\ reply'.raised # None) =>
                  conversation_history' = conversation_history
           /\ reply'.call = "reset_conversation" => conversation_history' = <<>>
         ]_vars

\* a send that failed on a malformed answer after one that succeeded
C28_Witness ==
    /\ Len(conversation_history) = 2
    /\ reply.call = "send_message"
    /\ reply.raised = "KeyError"

(***************************************************************************)
(* ConfigLoader.merge_with_args (src/doctai/config.py)                     *)
(*                                                                         *)
(* A Python value that may be None is a sequence: <<>> for None, <<v>> for *)
(* the value v.  The config holds the values as PyYAML and json produce    *)
(* them: integers, booleans, strings and lists of strings.                 *)
(***************************************************************************)

\* dict.get(key)
Get(d, key) == IF DictHas(d, key) THEN <<DictGet(d, key)>> ELSE <<>>

\* the truth value of an optional string, integer, list
TruthyStr(o) == o # <<>> /\ o[1] # ""

TruthyInt(o) == o # <<>> /\ o[1] # 0

TruthyList(o) == o # <<>> /\ o[1] # <<>>

\* a or b, on optional strings and on optional integers
OrStr(a, b) == IF TruthyStr(a) THEN a ELSE b

OrInt(a, b) == IF TruthyInt(a) THEN a ELSE b

\* get_docs, lines 138-156, for list values
RECURSIVE FirstList(_, _, _)
FirstList(d, keys, i) ==
    IF i > Len(keys) THEN <<>>
    ELSE IF DictHas(d, keys[i]) THEN DictGet(d, keys[i])
    ELSE FirstList(d, keys, i + 1)

get_docs(c) == FirstList(c, <<"docs", "documentation", "sources", "files">>, 1)

\* lines 158-172
get_provider(c) == OrStr(Get(c, "provider"), Get(c, "ai_provider"))

get_model(c) == OrStr(Get(c, "model"), Get(c, "ai_model"))

get_api_url(c) == OrStr(Get(c, "api_url"), Get(c, "api-url"))

get_work_dir(c) == OrStr(Get(c, "work_dir"), Get(c, "work-dir"))

\* get_stop_on_failure, lines 174-181, for boolean values
get_stop_on_failure(c) ==
    LET a == Get(c, "stop_on_failure")
        value == IF a # <<>> /\ a[1] THEN a ELSE Get(c, "stop-on-failure")
    IN  IF value # <<>> THEN value[1] ELSE FALSE

\* get_max_iterations, lines 183-191: int(value) of an integer is the integer
get_max_iterations(c) == OrInt(Get(c, "max_iterations"), Get(c, "max-iterations"))

\* get_timeout, lines 193-201
get_timeout(c) == Get(c, "timeout")

\* get_instructions, lines 203-214, for string values
RECURSIVE FirstStr(_, _, _)
FirstStr(d, keys, i) ==
    IF i > Len(keys) THEN <<>>
    ELSE IF DictHas(d, keys[i]) THEN <<DictGet(d, keys[i])>>
    ELSE FirstStr(d, keys, i + 1)

get_instructions(c) ==
    FirstStr(c, <<"instructions", "custom_instructions", "additional_instructions",
                  "notes">>, 1)

\* config.py:264
MaxIterationsDefault == 3

\* config.py:267
RequestTimeoutDefault == 120

\* merge_with_args, lines 225-281
merge_with_args(c, a) ==
    [docs |-> IF ~TruthyList(a.docs) THEN <<get_docs(c)>> ELSE a.docs,
     provider |-> OrStr(OrStr(a.provider, get_provider(c)), <<"openai">>),
     model |-> OrStr(a.model, get_model(c)),
     api_url |-> OrStr(a.api_url, get_api_url(c)),
     work_dir |-> OrStr(a.work_dir, get_work_dir(c)),
     stop_on_failure |-> IF a.stop_on_failure # <<>> THEN a.stop_on_failure
                         ELSE <<get_stop_on_failure(c)>>,
     max_iterations |-> OrInt(OrInt(a.max_iterations, get_max_iterations(c)),
                              <<MaxIterationsDefault>>),
     timeout |-> OrInt(OrInt(a.timeout, get_timeout(c)), <<RequestTimeoutDefault>>),
     api_key |-> a.api_key,
     output |-> a.output,
     quiet |-> a.quiet,
     instructions |-> OrStr(a.instructions, get_instructions(c))]

(* Specification SpecMerge: merge_with_args on every argument dict *)

EmptyConfig == <<>>

FullConfig ==
    << [key |-> "docs", value |-> <<"README.md">>],
       [key |-> "provider", value |-> "anthropic"],
       [key |-> "model", value |-> "gpt-4o"],
       [key |-> "api_url", value |-> "https://config.example/v1"],
       [key |-> "work_dir", value |-> "config-work"],
       [key |-> "stop_on_failure", value |-> TRUE],
       [key |-> "max_iterations", value |-> 5],
       [key |-> "timeout", value |-> 60],
       [key |-> "instructions", value |-> "from the config"] >>

\* the same settings under the other key names the getters accept
AliasConfig ==
    << [key |-> "documentation", value |-> <<"docs/guide.md">>],
       [key |-> "ai_provider", value |-> "gemini"],
       [key |-> "ai_model", value |-> "gemini-pro"],
       [key |-> "stop-on-failure", value |-> TRUE],
       [key |-> "max-iterations", value |-> 9],
       [key |-> "notes", value |-> "from the notes"] >>

Configs == {EmptyConfig, FullConfig, AliasConfig}

OptionalStr(v) == {<<>>, <<v>>}

ArgDicts ==
    [docs : {<<>>, <<<<>>>>, <<<<"INSTALL.md">>>>},
     provider : OptionalStr("gemini"),
     model : OptionalStr("cli-model"),
     api_url : OptionalStr("https://cli.example/v1"),
     work_dir : OptionalStr("cli-work"),
     stop_on_failure : {<<>>, <<FALSE>>, <<TRUE>>},
     max_iterations : {<<>>, <<0>>, <<7>>},
     timeout : {<<>>, <<0>>, <<30>>},
     api_key : {<<"test-key">>},
     output : {<<>>},
     quiet : {FALSE},
     instructions : OptionalStr("from the command line")]

NotMerged == [docs |-> <<>>]

InitMerge ==
    /\ pc = "merge_with_args"
    /\ CoreIdle
    /\ ExecutorIdle /\ FetcherIdle /\ ClientIdle /\ RefineIdle
    /\ config \in Configs
    /\ args \in ArgDicts
    /\ merged = NotMerged

MergeWithArgs ==
    /\ pc = "merge_with_args"
    /\ merged' = merge_with_args(config, args)
    /\ pc' = "merged"
    /\ UNCHANGED <<coreRest, args, config, executorVars, fetcherVars,
                   clientVars, refineVars>>

NextMerge == MergeWithArgs

SpecMerge == InitMerge /\ [][NextMerge]_vars

MergedSettings ==
    {"docs", "provider", "model", "api_url", "work_dir", "stop_on_failure",
     "max_iterations", "timeout", "instructions"}

\* C24: for each of docs, provider, model, api_url, work_dir, stop_on_failure,
\* max_iterations, timeout and instructions, a supplied command-line value
\* (0 and False included) is the merged value.
C24_ArgumentsTakePrecedence ==
    pc = "merged" =>
        \A f \in MergedSettings : args[f] # <<>> => merged[f] = args[f]

(***************************************************************************)
(* The parser of src/doc_tester/orchestrator.py, next to that of           *)
(* src/doctai/orchestrator.py                                              *)
(***************************************************************************)

\* mutant: the denylist left out
DocTesterLoopBody_no_denylist(i, language, body, acc) ==
    LET script_type == NormalizeType(ScriptType(language))
    IN  DictSet(acc, ScriptName(i, script_type),
                [content |-> Strip(body), type |-> script_type])

\* one iteration of the for loop, doc_tester/orchestrator.py:285-305
DocTesterLoopBody(i, language, body, acc) ==
    LET script_type == NormalizeType(ScriptType(language))
    IN  IF ScriptType(language) \in NonExecutable THEN acc
        ELSE DictSet(acc, ScriptName(i, script_type),
                     [content |-> Strip(body), type |-> script_type])

RECURSIVE DocTesterExtractLoop(_, _, _)
DocTesterExtractLoop(matches, i, acc) ==
    IF i > Len(matches) THEN acc
    ELSE DocTesterExtractLoop(matches, i + 1,
             DocTesterLoopBody(i, matches[i].language, matches[i].content, acc))

\* doc_tester/orchestrator.py:267-307
doc_tester_extract_scripts_from_response(text) ==
    DocTesterExtractLoop(FindAll(text), 1, <<>>)

(* Specification SpecRefine: both parsers on every response *)

InitRefine == InitParse

ExtractDocTester ==
    /\ pc = "parsed"
    /\ doc_tester_scripts' = doc_tester_extract_scripts_from_response(response)
    /\ pc' = "compared"
    /\ UNCHANGED <<coreRest, executorVars, fetcherVars, clientVars, configVars>>

NextRefine == Extract \/ ExtractDocTester

SpecRefine == InitRefine /\ [][NextRefine]_vars

\* no block that passes the denylist satisfies the runner or the cleanup rule
NoHeuristicFires ==
    \A i \in 1..Len(Candidates) :
        ~RuleTable[Candidates[i]].denied =>
            /\ ~RuleTable[Candidates[i]].runner
            /\ ~RuleTable[Candidates[i]].cleanup

\* C29: for every response in which no block that passes the denylist
\* satisfies the runner rule or the cleanup rule, the two parsers return the
\* same entries in the same order; for every response, every entry of
\* doctai's result is an entry of doc_tester's.
C29_ParsersAgree ==
    pc = "compared" =>
        /\ NoHeuristicFires => scripts = doc_tester_scripts
        /\ \A k \in 1..Len(scripts) :
               \E j \in 1..Len(doc_tester_scripts) : doc_tester_scripts[j] = scripts[k]

\* two executable blocks and a denylisted one, no heuristic fires
C29_Witness ==
    /\ pc = "compared"
    /\ NoHeuristicFires
    /\ Len(Candidates) = 3
    /\ Len(scripts) = 2
    /\ scripts = doc_tester_scripts

\* a runner block dropped and a cleanup block moved behind a normal one
C29_WitnessSubset ==
    /\ pc = "compared"
    /\ DictKeys(doc_tester_scripts) = <<"script_1_bash", "script_2_bash", "script_3_bash">>
    /\ DictKeys(scripts) = <<"script_3_bash", "script_1_bash">>

====
